---- MODULE Spec2Model ----
(***************************************************************************)
(* Model of the valuation engine of valuation_app:                         *)
(*   src/valuation_professional.py  (calculate_wacc, monte_carlo_valuation,*)
(*                                   enhanced_dcf_valuation)               *)
(*   src/valuation_service.py       (ValuationService.run_valuation)       *)
(*                                                                         *)
(* Numbers.  The program computes in Python floats.  The model computes in *)
(* fixed point over the integers:                                          *)
(*   - a rate, fraction or multiple x is the integer x * RS (RS = 1000),   *)
(*     so 0.01 is 10, 0.005 is 5, 0.25 is 250, a 12.0x multiple is 12000;  *)
(*   - a money amount is an integer number of currency units;              *)
(*   - upside_pct is kept in hundredths of a percent (20.01 is 2001).      *)
(* A product is rescaled by Mul, a quotient by Quot; both round towards    *)
(* minus infinity (\div), where a float rounds to nearest.  A division by  *)
(* zero is a raised ZeroDivisionError and is modelled by an explicit       *)
(* guard taken from the code's denominator, never by the rounded value.    *)
(***************************************************************************)
EXTENDS Integers, Sequences, FiniteSets, TLC

\* The fixed-point unit of a float holding a rate: 1.0 is RS.
RS == 1000

\* The unit of upside_pct: 1 percent is PCT (so 20.01 percent is 2001).
PCT == 100

\* Python's None (run_valuation's result on failure, a dict or frame that
\* does not exist yet), as a record so that it compares with records.
None == [none |-> TRUE]

\* No exception.
NoError == "None"

\* (a * m) \div b for b # 0, computed without forming a * m: with
\* a = q * b + r and 0 <= r < b, floor(a * m / b) = q * m + floor(r * m / b).
\* The operands are bound as values (x, y, z), so that each is computed once.
RECURSIVE MulDiv(_, _, _)
MulDiv(a, m, b) ==
    CHOOSE r \in { IF z < 0 THEN MulDiv(-x, y, -z)
                   ELSE (x \div z) * y + ((x % z) * y) \div z :
                   x \in {a}, y \in {m}, z \in {b} } : TRUE

\* a * b of two floats, one of them a rate: (a * b) \div RS.
Mul(a, b) == MulDiv(a, b, RS)

\* a / b of two floats, b # 0, the quotient a rate (or b a rate):
\* (a * RS) \div b.
Quot(a, b) == MulDiv(a, RS, b)

\* x ** n for a rate x and an int n >= 0.
RECURSIVE Pow(_, _)
Pow(x, n) == IF n = 0 THEN RS ELSE Mul(Pow(x, n - 1), x)

Min(a, b) == IF a <= b THEN a ELSE b

\* ------------------------------------------------------------------------
\* calculate_wacc  (valuation_professional.py 19-38)
\* ------------------------------------------------------------------------

\* Credit spreads of line 25: 0.025 when debt > equity_value, else 0.015.
SpreadHigh == 25
SpreadLow == 15

\* A cost of equity that ignores beta.
cost_of_equity_without_beta(rf, beta, mrp, country_risk, size_premium) ==
    rf + mrp + country_risk + size_premium

cost_of_equity(rf, beta, mrp, country_risk, size_premium) ==
    rf + Mul(beta, mrp) + country_risk + size_premium

\* The high spread already at debt == equity_value.
credit_spread_from_parity(debt, equity_value) ==
    IF debt >= equity_value THEN SpreadHigh ELSE SpreadLow

credit_spread(debt, equity_value) ==
    IF debt > equity_value THEN SpreadHigh ELSE SpreadLow

cost_of_debt(rf, debt, equity_value) == rf + credit_spread(debt, equity_value)

\* The value calculate_wacc returns: a bare float when total_value == 0
\* (line 31), the 3-tuple (wacc, cost_of_equity, cost_of_debt) otherwise
\* (line 38).
calculate_wacc(rf, beta, mrp, debt, equity_value, tax_rate, country_risk, size_premium) ==
    LET coe == cost_of_equity(rf, beta, mrp, country_risk, size_premium)
        cod == cost_of_debt(rf, debt, equity_value)
        total_value == debt + equity_value
    IN  IF total_value = 0
        THEN [kind |-> "float", value |-> coe]
        ELSE LET weight_equity == Quot(equity_value, total_value)
                 weight_debt == Quot(debt, total_value)
                 wacc == Mul(weight_equity, coe)
                         + Mul(Mul(weight_debt, cod), RS - tax_rate)
             IN  [kind |-> "tuple", wacc |-> wacc,
                  cost_of_equity |-> coe, cost_of_debt |-> cod]

\* ------------------------------------------------------------------------
\* enhanced_dcf_valuation, section by section.  Each section is an operator
\* from the input record d (company_data) and the locals computed so far
\* to the locals it adds, or to Raise(..) when the section raises.
\* ------------------------------------------------------------------------

Raise(exc) == [raised |-> TRUE, exc |-> exc]
Locals(r) == [raised |-> FALSE, locals |-> r]

\* Lines 168-171: the 3-way unpacking of calculate_wacc's value.  Unpacking
\* a bare float raises TypeError.
WaccSection(d) ==
    LET r == calculate_wacc(d.risk_free_rate, d.beta, d.market_risk_premium,
                            d.debt, d.market_cap_estimate, d.tax_rate,
                            d.country_risk_premium, d.size_premium)
    IN  IF r.kind = "tuple"
        THEN Locals([wacc |-> r.wacc, cost_of_equity |-> r.cost_of_equity,
                     cost_of_debt |-> r.cost_of_debt])
        ELSE Raise("TypeError")

\* Projection horizon, range(1, 11) of line 198.
Years == 10

\* A fade that reaches the terminal rate in year 8.
growth_schedule_short_fade(d) ==
    << d.growth_rate_y1, d.growth_rate_y1, d.growth_rate_y2, d.growth_rate_y2,
       d.growth_rate_y3, d.growth_rate_y3,
       (d.growth_rate_y3 + d.terminal_growth) \div 2,
       d.terminal_growth, d.terminal_growth, d.terminal_growth >>

\* Lines 192-196.
growth_schedule(d) ==
    << d.growth_rate_y1, d.growth_rate_y1, d.growth_rate_y2, d.growth_rate_y2,
       d.growth_rate_y3, d.growth_rate_y3,
       (d.growth_rate_y3 + d.terminal_growth) \div 2,
       d.terminal_growth + 10, d.terminal_growth + 5, d.terminal_growth >>

\* One pass of the loop body, lines 199-214, for year y with the revenue of
\* the year before; the caller has checked revenue # 0 and 1 + wacc # 0.
YearRow(d, wacc, y, prev_revenue) ==
    LET growth_rate == growth_schedule(d)[y]
        current_revenue == Mul(prev_revenue, RS + growth_rate)
        year_ebitda == Mul(current_revenue, Quot(d.ebitda, d.revenue))
        year_da == Mul(current_revenue, Quot(d.depreciation, d.revenue))
        year_ebit == year_ebitda - year_da
        year_nopat == Mul(year_ebit, RS - d.tax_rate)
        year_capex == Mul(current_revenue, d.capex_pct)
        year_wc == Mul(d.working_capital_change, Pow(RS + growth_rate, y))
        year_fcf == year_nopat + year_da - year_capex - year_wc
        discount_factor == Quot(RS, Pow(RS + wacc, y))
        pv_fcf == Mul(year_fcf, discount_factor)
    IN  [revenue |-> current_revenue, fcf |-> year_fcf, pv_fcf |-> pv_fcf]

\* The loop of lines 198-216 up to and including year y.  The state after
\* year y - 1 is bound as a value (p), so that it is computed once however
\* often year y reads it.
RECURSIVE Projection(_, _, _)
Projection(d, wacc, y) ==
    IF y = 0
    THEN [current_revenue |-> d.revenue, projected_fcf |-> << >>, total_pv_fcf |-> 0]
    ELSE LET after(p) ==
                 LET row == YearRow(d, wacc, y, p.current_revenue)
                 IN  [current_revenue |-> row.revenue,
                      projected_fcf |-> Append(p.projected_fcf, row.fcf),
                      total_pv_fcf |-> p.total_pv_fcf + row.pv_fcf]
         IN  CHOOSE q \in {after(p) : p \in {Projection(d, wacc, y - 1)}} : TRUE

\* Lines 187-216.  ebitda / revenue (line 202) raises when revenue == 0;
\* 1 / ((1 + wacc) ** year) (line 210) raises when 1 + wacc == 0.
ProjectionSection(d, f) ==
    IF d.revenue = 0 \/ RS + f.wacc = 0
    THEN Raise("ZeroDivisionError")
    ELSE LET p == Projection(d, f.wacc, Years)
         IN  Locals([projected_fcf |-> p.projected_fcf,
                     total_pv_fcf |-> p.total_pv_fcf])

\* The clamp step of line 223: wacc - 0.01.
ClampMargin == 10

\* Lines 221-223: the terminal growth used after the clamp.
\* A clamp without the 0.01 margin: growth is held at WACC itself.
clamped_growth_no_margin(wacc, terminal_growth) ==
    IF wacc <= terminal_growth THEN Min(terminal_growth, wacc) ELSE terminal_growth

clamped_growth(wacc, terminal_growth) ==
    IF wacc <= terminal_growth
    THEN Min(terminal_growth, wacc - ClampMargin)
    ELSE terminal_growth

\* A terminal-year cash flow grown at the growth rate left by the clamp.
TerminalFcfClampedGrowth(fcf, wacc, terminal_growth) ==
    Mul(fcf, RS + clamped_growth(wacc, terminal_growth))

\* Line 219, which runs before the clamp of lines 221-223:
\* projected_fcf[-1] * (1 + terminal_growth), the growth that of the input.
TerminalFcf(fcf, wacc, terminal_growth) == Mul(fcf, RS + terminal_growth)

\* Lines 218-237.  Either division raises on a zero denominator:
\* terminal_fcf / (wacc - terminal_growth) (line 225) and
\* dcf_equity_value / shares (line 237).  The local terminal_growth is rebound by the clamp; the
\* input record keeps its own value.
TerminalSection(d, f) ==
    LET terminal_fcf == TerminalFcf(f.projected_fcf[Years], f.wacc, d.terminal_growth)
        clamped == f.wacc <= d.terminal_growth
        terminal_growth == clamped_growth(f.wacc, d.terminal_growth)
        terminal_value == Quot(terminal_fcf, f.wacc - terminal_growth)
        pv_terminal_value == Quot(terminal_value, Pow(RS + f.wacc, Years))
        dcf_enterprise_value == f.total_pv_fcf + pv_terminal_value
        dcf_equity_value == dcf_enterprise_value + d.cash - d.debt
    IN  IF f.wacc - terminal_growth = 0 \/ d.shares_outstanding = 0
        THEN Raise("ZeroDivisionError")
        ELSE Locals([terminal_fcf |-> terminal_fcf, clamped |-> clamped,
                     terminal_growth |-> terminal_growth,
                     tv_denominator |-> f.wacc - terminal_growth,
                     terminal_value |-> terminal_value,
                     pv_terminal_value |-> pv_terminal_value,
                     dcf_equity_value |-> dcf_equity_value,
                     dcf_price_per_share |->
                         Quot(dcf_equity_value, d.shares_outstanding)])

\* ------------------------------------------------------------------------
\* calculate_financial_ratios  (valuation_professional.py 40-68)
\* Ratios that the code multiplies by 100 are percentages in units of 1/RS.
\* ------------------------------------------------------------------------

\* profit * 0.8 of line 62.
RoicShare == 800
\* debt * 0.05 of line 65.
InterestRate == 50
\* The coverage reported when the interest expense is not positive, line 66.
CoverageCap == 999

\* Guards that test the denominators for # 0 instead of > 0.
calculate_financial_ratios_nonzero_guards(revenue, ebitda, profit, debt, cash, equity_value, shares, fcf) ==
    LET ev == equity_value + debt - cash
        net_debt == debt - cash
        interest_expense == debt * InterestRate
    IN  [ev |-> ev,
         ev_ebitda |-> IF ebitda # 0 THEN Quot(ev, ebitda) ELSE 0,
         ev_revenue |-> IF revenue # 0 THEN Quot(ev, revenue) ELSE 0,
         pe |-> IF profit # 0 THEN Quot(equity_value, profit) ELSE 0,
         price_per_share |-> IF shares # 0 THEN Quot(equity_value, shares) ELSE 0,
         fcf_yield |-> IF equity_value # 0 THEN Quot(fcf, equity_value) * 100 ELSE 0,
         debt_to_equity |-> IF equity_value # 0 THEN Quot(debt, equity_value) ELSE 0,
         debt_to_ebitda |-> IF ebitda # 0 THEN Quot(debt, ebitda) ELSE 0,
         net_debt |-> net_debt,
         net_debt_to_ebitda |-> IF ebitda # 0 THEN Quot(net_debt, ebitda) ELSE 0,
         ebitda_margin |-> IF revenue # 0 THEN Quot(ebitda, revenue) * 100 ELSE 0,
         profit_margin |-> IF revenue # 0 THEN Quot(profit, revenue) * 100 ELSE 0,
         roe |-> IF equity_value # 0 THEN Quot(profit, equity_value) * 100 ELSE 0,
         roic |-> IF debt + equity_value # 0
                  THEN Quot(Mul(profit, RoicShare), debt + equity_value) * 100
                  ELSE 0,
         interest_coverage |-> IF interest_expense # 0
                               THEN Quot(ebitda * RS, interest_expense)
                               ELSE CoverageCap * RS]

calculate_financial_ratios(revenue, ebitda, profit, debt, cash, equity_value, shares, fcf) ==
    LET ev == equity_value + debt - cash
        net_debt == debt - cash
        \* debt * 0.05, kept unrescaled (money * RS) so that a small debt
        \* still gives a positive interest expense, as in the float.
        interest_expense == debt * InterestRate
    IN  [ev |-> ev,
         ev_ebitda |-> IF ebitda > 0 THEN Quot(ev, ebitda) ELSE 0,
         ev_revenue |-> IF revenue > 0 THEN Quot(ev, revenue) ELSE 0,
         pe |-> IF profit > 0 THEN Quot(equity_value, profit) ELSE 0,
         price_per_share |-> IF shares > 0 THEN Quot(equity_value, shares) ELSE 0,
         fcf_yield |-> IF equity_value > 0 THEN Quot(fcf, equity_value) * 100 ELSE 0,
         debt_to_equity |-> IF equity_value > 0 THEN Quot(debt, equity_value) ELSE 0,
         debt_to_ebitda |-> IF ebitda > 0 THEN Quot(debt, ebitda) ELSE 0,
         net_debt |-> net_debt,
         net_debt_to_ebitda |-> IF ebitda > 0 THEN Quot(net_debt, ebitda) ELSE 0,
         ebitda_margin |-> IF revenue > 0 THEN Quot(ebitda, revenue) * 100 ELSE 0,
         profit_margin |-> IF revenue > 0 THEN Quot(profit, revenue) * 100 ELSE 0,
         roe |-> IF equity_value > 0 THEN Quot(profit, equity_value) * 100 ELSE 0,
         roic |-> IF debt + equity_value > 0
                  THEN Quot(Mul(profit, RoicShare), debt + equity_value) * 100
                  ELSE 0,
         interest_coverage |-> IF interest_expense > 0
                               THEN Quot(ebitda * RS, interest_expense)
                               ELSE CoverageCap * RS]

\* ------------------------------------------------------------------------
\* altman_z_score  (valuation_professional.py 70-90)
\* ------------------------------------------------------------------------

\* Coefficients of line 81 and the zone thresholds of lines 83-85.
ZCoefX1 == 1200
ZCoefX2 == 1400
ZCoefX3 == 3300
ZCoefX4 == 600
ZCoefX5 == 1000
RetainedShare == 600
X4NoDebt == 10
ZSafe == 2990
ZGrey == 1810

\* The zones with their lower thresholds included.
altman_z_score_inclusive(revenue, ebitda, equity_value, debt, working_capital) ==
    LET total_assets == equity_value + debt
        x1 == IF total_assets > 0 THEN Quot(working_capital, total_assets) ELSE 0
        x2 == IF total_assets > 0 THEN Quot(Mul(ebitda, RetainedShare), total_assets) ELSE 0
        x3 == IF total_assets > 0 THEN Quot(ebitda, total_assets) ELSE 0
        x4 == IF debt > 0 THEN Quot(equity_value, debt) ELSE X4NoDebt * RS
        x5 == IF total_assets > 0 THEN Quot(revenue, total_assets) ELSE 0
        z_score == Mul(ZCoefX1, x1) + Mul(ZCoefX2, x2) + Mul(ZCoefX3, x3)
                   + Mul(ZCoefX4, x4) + Mul(ZCoefX5, x5)
    IN  [z_score |-> z_score,
         zone |-> IF z_score >= ZSafe THEN "Safe Zone"
                  ELSE IF z_score >= ZGrey THEN "Grey Zone"
                  ELSE "Distress Zone"]

altman_z_score(revenue, ebitda, equity_value, debt, working_capital) ==
    LET total_assets == equity_value + debt
        x1 == IF total_assets > 0 THEN Quot(working_capital, total_assets) ELSE 0
        x2 == IF total_assets > 0 THEN Quot(Mul(ebitda, RetainedShare), total_assets) ELSE 0
        x3 == IF total_assets > 0 THEN Quot(ebitda, total_assets) ELSE 0
        x4 == IF debt > 0 THEN Quot(equity_value, debt) ELSE X4NoDebt * RS
        x5 == IF total_assets > 0 THEN Quot(revenue, total_assets) ELSE 0
        z_score == Mul(ZCoefX1, x1) + Mul(ZCoefX2, x2) + Mul(ZCoefX3, x3)
                   + Mul(ZCoefX4, x4) + Mul(ZCoefX5, x5)
    IN  [z_score |-> z_score,
         zone |-> IF z_score > ZSafe THEN "Safe Zone"
                  ELSE IF z_score > ZGrey THEN "Grey Zone"
                  ELSE "Distress Zone"]

\* ------------------------------------------------------------------------
\* enhanced_dcf_valuation, lines 249-309: comparables, blend, ratios, Z.
\* ------------------------------------------------------------------------

\* Lines 273-275.
weight_dcf == 500
weight_ev_ebitda == 250
weight_pe == 250

\* A blend with equal weights on the three methods.
final_equity_value_equal_weights(dcf_equity_value, comp_equity_ev, comp_pe_method) ==
    (dcf_equity_value + comp_equity_ev + comp_pe_method) \div 3

\* Lines 277-281.
final_equity_value(dcf_equity_value, comp_equity_ev, comp_pe_method) ==
    Mul(dcf_equity_value, weight_dcf) + Mul(comp_equity_ev, weight_ev_ebitda)
    + Mul(comp_pe_method, weight_pe)

\* No division of these lines can raise: shares # 0 since line 237, and every
\* other one is guarded.
\* A P/E value taken on the after-tax profit.
comp_pe_method_after_tax(d) ==
    Mul(Mul(Mul(d.revenue, d.profit_margin), RS - d.tax_rate), d.comparable_pe)

\* Lines 252-253: comp_ev_method = ebitda * comp_ev_ebitda, less debt, plus
\* cash.
comp_equity_ev(d) == Mul(d.ebitda, d.comparable_ev_ebitda) - d.debt + d.cash

\* Lines 255-256: profit = revenue * profit_margin, times comp_pe.
comp_pe_method(d) == Mul(Mul(d.revenue, d.profit_margin), d.comparable_pe)

BlendSection(d, f) ==
    LET ev_equity == comp_equity_ev(d)
        profit == Mul(d.revenue, d.profit_margin)
        pe_equity == comp_pe_method(d)
        current_pe == IF profit > 0 THEN Quot(f.dcf_equity_value, profit) ELSE 0
        implied_peg == IF d.growth_rate_y1 > 0
                       THEN Quot(current_pe, d.growth_rate_y1) ELSE 0
        final == final_equity_value(f.dcf_equity_value, ev_equity, pe_equity)
        ratios == calculate_financial_ratios(d.revenue, d.ebitda, profit, d.debt,
                      d.cash, final, d.shares_outstanding, f.projected_fcf[1])
        z == altman_z_score(d.revenue, d.ebitda, final, d.debt,
                            d.working_capital_change)
    IN  Locals([comp_equity_ev |-> ev_equity, profit |-> profit,
                comp_pe_method |-> pe_equity, current_pe |-> current_pe,
                implied_peg |-> implied_peg, final_equity_value |-> final,
                final_price_per_share |-> Quot(final, d.shares_outstanding),
                ratios |-> ratios, z_score |-> z.z_score, z_zone |-> z.zone])

\* ------------------------------------------------------------------------
\* enhanced_dcf_valuation, lines 311-331: the sensitivity grid (printed,
\* not returned).
\* ------------------------------------------------------------------------

\* The offsets of lines 314 and 319: +-2%, +-1% and +-1%, +-0.5%.
dr_range(wacc) == << wacc - 20, wacc - 10, wacc, wacc + 10, wacc + 20 >>
tg_range(tg) == << tg - 10, tg - 5, tg, tg + 5, tg + 10 >>

GridIndex == 1..5

\* A cell that is computed for every pair with dr # tg and discounts the
\* terminal value over 5 years, as the unused helper sensitivity_analysis
\* (lines 92-105) does.
SensitivityCellFiveYears(d, f, tg, dr) ==
    IF dr = tg
    THEN [na |-> TRUE]
    ELSE LET tv == Quot(f.terminal_fcf, dr - tg)
             pv_tv == Quot(tv, Pow(RS + dr, 5))
             ev == f.total_pv_fcf + pv_tv
         IN  [na |-> FALSE, eq |-> ev + d.cash - d.debt]

\* Lines 323-330 for one cell: the "N/A" printed when dr <= tg, else the
\* equity value eq.
SensitivityCell(d, f, tg, dr) ==
    IF dr <= tg
    THEN [na |-> TRUE]
    ELSE LET tv == Quot(f.terminal_fcf, dr - tg)
             pv_tv == Quot(tv, Pow(RS + dr, Years))
             ev == f.total_pv_fcf + pv_tv
         IN  [na |-> FALSE, eq |-> ev + d.cash - d.debt]

\* A grid centred on the terminal growth of the input, as it was before the
\* clamp of line 223.
SensitivitySectionInputGrowth(d, f) ==
    LET drs == dr_range(f.wacc)
        tgs == tg_range(d.terminal_growth)
    IN  IF \E r \in GridIndex, c \in GridIndex :
               drs[c] > tgs[r] /\ RS + drs[c] = 0
        THEN Raise("ZeroDivisionError")
        ELSE Locals([sensitivity |->
                       [r \in GridIndex |-> [c \in GridIndex |->
                           SensitivityCell(d, f, tgs[r], drs[c])]]])

\* tv / ((1 + dr) ** 10) (line 327) raises when 1 + dr == 0 in a cell that is
\* computed.
SensitivitySection(d, f) ==
    LET drs == dr_range(f.wacc)
        tgs == tg_range(f.terminal_growth)
    IN  IF \E r \in GridIndex, c \in GridIndex :
               drs[c] > tgs[r] /\ RS + drs[c] = 0
        THEN Raise("ZeroDivisionError")
        ELSE Locals([sensitivity |->
                       [r \in GridIndex |-> [c \in GridIndex |->
                           SensitivityCell(d, f, tgs[r], drs[c])]]])

\* ------------------------------------------------------------------------
\* The process-wide generator of Python's random module, which
\* monte_carlo_valuation draws from (lines 109, 113-114).  The generator is
\* a deterministic function of its hidden state; it is modelled as a linear
\* congruential generator over RngStates states, and a standard normal
\* deviate as a table lookup on the state.
\* ------------------------------------------------------------------------

RngStates == 16
RngMul == 5
RngInc == 3

RngNext(s) == (s * RngMul + RngInc) % RngStates

\* A standard normal deviate in units of 1/RS: one of -1.5, -1.0, ..., 1.5.
Deviate(s) == ((s % 7) - 3) * 500

\* random.gauss(0, sigma) from state s.
gauss(s, sigma) == Mul(sigma, Deviate(s))

\* ------------------------------------------------------------------------
\* monte_carlo_valuation  (valuation_professional.py 107-125)
\* ------------------------------------------------------------------------

\* sorted(results): insertion sort.
RECURSIVE Insert(_, _)
Insert(x, s) ==
    IF s = << >> THEN << x >>
    ELSE IF x <= Head(s) THEN << x >> \o s
    ELSE << Head(s) >> \o Insert(x, Tail(s))

\* The results left in the order they were drawn.
sorted_as_drawn(s) == s

RECURSIVE sorted(_)
sorted(s) == IF s = << >> THEN << >> ELSE Insert(Head(s), sorted(Tail(s)))

RECURSIVE SeqSum(_)
SeqSum(s) == IF s = << >> THEN 0 ELSE Head(s) + SeqSum(Tail(s))

\* Lines 113-117, one iteration from generator state s: the two draws, in
\* order, and the adjusted value.  (1 + discount_shock) == 0 raises.
MonteCarloDraw(base_value, growth_volatility, discount_volatility, s) ==
    LET growth_shock == gauss(s, growth_volatility)
        discount_shock == gauss(RngNext(s), discount_volatility)
    IN  [rng |-> RngNext(RngNext(s)),
         raised |-> RS + discount_shock = 0,
         adjusted_value |-> IF RS + discount_shock = 0 THEN 0
                            ELSE MulDiv(base_value, RS + growth_shock,
                                        RS + discount_shock)]

\* The order statistics the summary indexes, lines 121-124, over the list
\* xs the code indexes (0-based index k is xs[k + 1]).
Percentiles(xs) ==
    LET n == Len(xs)
    IN  [median |-> xs[(n \div 2) + 1],
         p10 |-> xs[((n * 1) \div 10) + 1],
         p90 |-> xs[((n * 9) \div 10) + 1]]

\* Lines 119-125.  mean raises on an empty list and stdev on fewer than two
\* values (StatisticsError); the value of 'std' is not modelled (no caller
\* reads it, and it needs a square root).
MonteCarloSummary(results) ==
    IF Len(results) < 2
    THEN Raise("StatisticsError")
    ELSE LET q == Percentiles(sorted(results))
         IN  Locals([mean |-> SeqSum(results) \div Len(results),
                     median |-> q.median, p10 |-> q.p10, p90 |-> q.p90])

\* The arguments of the call of line 334: volatilities 0.15 and 0.10.
GrowthVolatility == 150
DiscountVolatility == 100

\* The iteration count of the call of line 334.  The program passes 1000;
\* the model runs Iterations iterations.
Iterations == 3

\* ------------------------------------------------------------------------
\* enhanced_dcf_valuation, lines 360-378: upside and recommendation.
\* ------------------------------------------------------------------------

\* Thresholds of lines 364-373, in hundredths of a percent.
StrongBuyAbove == 2000
BuyAbove == 1000
HoldAbove == -1000
UnderweightAbove == -2000

\* Lines 364-378.
\* Bands without UNDERWEIGHT: everything at or below -10 is SELL.
recommendation_sell_below_hold(upside) ==
    IF upside > StrongBuyAbove THEN "STRONG BUY"
    ELSE IF upside > BuyAbove THEN "BUY"
    ELSE IF upside > HoldAbove THEN "HOLD"
    ELSE "SELL"

\* Bands whose lower thresholds are inclusive.
recommendation_inclusive(upside) ==
    IF upside >= StrongBuyAbove THEN "STRONG BUY"
    ELSE IF upside >= BuyAbove THEN "BUY"
    ELSE IF upside >= HoldAbove THEN "HOLD"
    ELSE IF upside >= UnderweightAbove THEN "UNDERWEIGHT"
    ELSE "SELL"

recommendation(upside) ==
    IF upside > StrongBuyAbove THEN "STRONG BUY"
    ELSE IF upside > BuyAbove THEN "BUY"
    ELSE IF upside > HoldAbove THEN "HOLD"
    ELSE IF upside > UnderweightAbove THEN "UNDERWEIGHT"
    ELSE "SELL"

\* Line 360: ((final_equity_value - market_cap) / market_cap) * 100.
upside_pct(final, market_cap) == MulDiv(final - market_cap, 100 * PCT, market_cap)

\* Lines 357-378.  The divisions by market_cap raise when market_cap == 0.
RecommendSection(d, f) ==
    IF d.market_cap_estimate = 0
    THEN Raise("ZeroDivisionError")
    ELSE LET upside == upside_pct(f.final_equity_value, d.market_cap_estimate)
         IN  Locals([upside |-> upside, recommendation |-> recommendation(upside),
                     target_price |-> f.final_price_per_share])

\* ------------------------------------------------------------------------
\* enhanced_dcf_valuation, lines 391-414: the returned dict.
\* ------------------------------------------------------------------------

OutputFields ==
    {"name", "sector", "dcf_equity_value", "dcf_price_per_share", "comp_ev_value",
     "comp_pe_value", "final_equity_value", "final_price_per_share", "market_cap",
     "current_price", "upside_pct", "recommendation", "wacc", "ev_ebitda",
     "pe_ratio", "fcf_yield", "roe", "roic", "debt_to_equity", "z_score",
     "mc_p10", "mc_p90"}

ReturnValue(d, f) ==
    [name |-> d.name, sector |-> d.sector,
     dcf_equity_value |-> f.dcf_equity_value,
     dcf_price_per_share |-> f.dcf_price_per_share,
     comp_ev_value |-> f.comp_equity_ev,
     comp_pe_value |-> f.comp_pe_method,
     final_equity_value |-> f.final_equity_value,
     final_price_per_share |-> f.final_price_per_share,
     market_cap |-> d.market_cap_estimate,
     current_price |-> Quot(d.market_cap_estimate, d.shares_outstanding),
     upside_pct |-> f.upside,
     recommendation |-> f.recommendation,
     wacc |-> f.wacc,
     ev_ebitda |-> f.ratios.ev_ebitda,
     pe_ratio |-> f.ratios.pe,
     fcf_yield |-> f.ratios.fcf_yield,
     roe |-> f.ratios.roe,
     roic |-> f.ratios.roic,
     debt_to_equity |-> f.ratios.debt_to_equity,
     z_score |-> f.z_score,
     mc_p10 |-> f.mc_results.p10,
     mc_p90 |-> f.mc_results.p90]

\* ------------------------------------------------------------------------
\* Inputs.  Base is the example record of the specification and of
\* models.py (lines 135-159) with every amount and the share count divided
\* by 2000.  The families below vary it field by field.
\* ------------------------------------------------------------------------

Base ==
    [name |-> "TechStartup Inc", sector |-> "Software",
     revenue |-> 2500, ebitda |-> 750, depreciation |-> 50,
     capex_pct |-> 50, working_capital_change |-> -25, profit_margin |-> 150,
     growth_rate_y1 |-> 300, growth_rate_y2 |-> 250, growth_rate_y3 |-> 200,
     terminal_growth |-> 30, tax_rate |-> 250,
     shares_outstanding |-> 500, debt |-> 250, cash |-> 500,
     market_cap_estimate |-> 1500,
     beta |-> 1500, risk_free_rate |-> 40, market_risk_premium |-> 70,
     country_risk_premium |-> 0, size_premium |-> 30,
     comparable_ev_ebitda |-> 12000, comparable_pe |-> 25000,
     comparable_peg |-> 1500]

\* Structurally invalid and valid values of the three validated fields.
StructuralInputs ==
    { [Base EXCEPT !.revenue = r, !.shares_outstanding = s, !.tax_rate = t] :
        r \in {-2500, 0, 2500}, s \in {-500, 0, 500},
        t \in {-100, 0, 250, 1000, 1100} }

\* <<debt, market_cap_estimate>>: no capital at all, the base mix, debt above
\* equity, no debt, no equity, and a large market capitalisation.
CapitalMixes ==
    { <<0, 0>>, <<250, 1500>>, <<1750, 1500>>, <<0, 1500>>, <<250, 0>>,
      <<250, 12000>> }

\* Numeric degeneracies: terminal growth below, equal to (154 is the WACC of
\* the base mix) and above WACC; negative, zero and positive EBITDA; zero and
\* positive profit.
DegenerateInputs ==
    { [Base EXCEPT !.debt = c[1], !.market_cap_estimate = c[2],
                   !.terminal_growth = tg, !.ebitda = e, !.profit_margin = m] :
        c \in CapitalMixes, tg \in {30, 154, 200}, e \in {-250, 0, 750},
        m \in {0, 150} }

\* An all-equity company whose CAPM cost of equity is -100%:
\* 0 + (-2.0) * 0.5 + 0 + 0, so that 1 + WACC == 0.
NegativeWaccInputs ==
    { [Base EXCEPT !.debt = 0, !.beta = -2000, !.market_risk_premium = 500,
                   !.risk_free_rate = 0, !.size_premium = 0,
                   !.terminal_growth = tg] : tg \in {-1100, 30} }

\* <<cash, comparable_pe>> that put upside_pct, at a market capitalisation of
\* 10000, on and next to each recommendation threshold: 10.00, 10.01, 19.99,
\* 20.00, 20.01, -20.01, -20.00, -19.99, -10.01, -10.00, -9.99.
BoundaryInputs ==
    { [Base EXCEPT !.market_cap_estimate = 10000, !.cash = c[1],
                   !.comparable_pe = c[2]] :
        c \in { <<2627, 25000>>, <<2629, 25000>>, <<3959, 25000>>,
                <<3961, 25000>>, <<3962, 25000>>, <<1126, 5000>>,
                <<1127, 5000>>, <<1129, 5000>>, <<2459, 5000>>,
                <<2461, 5000>>, <<2462, 5000>> } }

Inputs == StructuralInputs \cup DegenerateInputs \cup NegativeWaccInputs
          \cup BoundaryInputs

\* Two companies valued by concurrent requests.
ThreadedInputs ==
    { Base, [Base EXCEPT !.name = "Other Corp", !.revenue = 4000,
                         !.market_cap_estimate = 12000] }

\* The inputs of two calls in a row: the above, and a company that differs
\* from Base in growth, tax, capex, beta and premiums only.
TwiceInputs ==
    ThreadedInputs
    \cup { [Base EXCEPT !.name = "Slow Corp", !.growth_rate_y1 = 200,
                        !.growth_rate_y2 = 150, !.growth_rate_y3 = 100,
                        !.terminal_growth = 20, !.tax_rate = 300,
                        !.capex_pct = 80, !.beta = 1000,
                        !.risk_free_rate = 30, !.market_risk_premium = 60,
                        !.country_risk_premium = 10, !.size_premium = 10] }

\* ------------------------------------------------------------------------
\* The engine as one function of its input and of the generator state it
\* starts from: the sections in program order, with no other thread running.
\* ------------------------------------------------------------------------

\* The loop of lines 112-117 run to its end from generator state s:
\* the results, the generator state left behind, and whether a draw raised.
RECURSIVE MonteCarloLoop(_, _, _, _, _)
MonteCarloLoop(base_value, growth_volatility, discount_volatility, n, s) ==
    IF n = 0
    THEN [results |-> << >>, rng |-> s, raised |-> FALSE]
    ELSE LET draw == MonteCarloDraw(base_value, growth_volatility,
                                    discount_volatility, s)
             rest == MonteCarloLoop(base_value, growth_volatility,
                                    discount_volatility, n - 1, draw.rng)
         IN  [results |-> << draw.adjusted_value >> \o rest.results,
              rng |-> rest.rng,
              raised |-> draw.raised \/ rest.raised]

\* monte_carlo_valuation as a whole, lines 107-125.
monte_carlo_valuation(base_value, growth_volatility, discount_volatility, iterations, s) ==
    LET loop == MonteCarloLoop(base_value, growth_volatility,
                               discount_volatility, iterations, s)
    IN  IF loop.raised THEN Raise("ZeroDivisionError")
        ELSE MonteCarloSummary(loop.results)

\* f extended by the locals of section sec, or the section's exception.
Then(f, sec) == IF sec.raised THEN sec ELSE Locals(f @@ sec.locals)

\* enhanced_dcf_valuation(company_data), lines 127-414, from generator
\* state s: the returned dict, or the exception raised.
enhanced_dcf_valuation(d, s) ==
    LET f0 == [name |-> d.name, sector |-> d.sector]
        s1 == Then(f0, WaccSection(d))
        s2 == IF s1.raised THEN s1 ELSE Then(s1.locals, ProjectionSection(d, s1.locals))
        s3 == IF s2.raised THEN s2 ELSE Then(s2.locals, TerminalSection(d, s2.locals))
        s4 == IF s3.raised THEN s3 ELSE Then(s3.locals, BlendSection(d, s3.locals))
        s5 == IF s4.raised THEN s4 ELSE Then(s4.locals, SensitivitySection(d, s4.locals))
        m  == monte_carlo_valuation(s5.locals.final_equity_value, GrowthVolatility,
                                    DiscountVolatility, Iterations, s)
        s6 == IF s5.raised THEN s5
              ELSE IF m.raised THEN m
              ELSE Locals(s5.locals @@ [mc_results |-> m.locals])
        s7 == IF s6.raised THEN s6 ELSE Then(s6.locals, RecommendSection(d, s6.locals))
    IN  IF s7.raised THEN s7 ELSE Locals(ReturnValue(d, s7.locals))

\* run_valuation(company_data), lines 135-156, from generator state s: the
\* dict, or None when the engine raised.
run_valuation(d, s) ==
    LET r == enhanced_dcf_valuation(d, s)
    IN  IF r.raised THEN None ELSE r.locals

\* ------------------------------------------------------------------------
\* State.
\* ------------------------------------------------------------------------

\* Request-handling threads of the process (app.py runs Flask's threaded
\* development server; run_valuations.py and batch_valuate_all use one).
\* The rows of companies joined with company_financials (the SELECT of
\* lines 57-70), by company id: a company the engine values, and one whose
\* valuation raises (no shares).  No company has id 3.
Companies ==
    [id \in {1, 2} |->
        IF id = 1 THEN Base @@ [id |-> 1]
        ELSE [Base EXCEPT !.name = "Shell Corp", !.shares_outstanding = 0]
             @@ [id |-> 2]]

NumWorkers == 2
Workers == 1..NumWorkers

VARIABLES
    pc,            \* pc[w]: where worker w is in run_valuation / the engine
    company_data,  \* company_data[w]: the dict passed to run_valuation
    frame,         \* frame[w]: the locals of enhanced_dcf_valuation
    mc,            \* mc[w]: the activation of monte_carlo_valuation, or None
    result,        \* result[w]: what run_valuation returned, None before
    error,         \* error[w]: the exception a call raised, NoError if none
    rng,           \* the state of the process-wide random generator
    rng_at_call,   \* history: rng when worker w's call began
    db,            \* the database: the companies with their financials, and
                   \* the rows of valuation_results in insertion order
    outcome,       \* outcome[w]: what w's latest valuate_company call
                   \* returned (None while it runs), and how many it has made
    app            \* app[w]: the request worker w is serving or served last
                   \* (its route, what it wrote, what it answered)

vars == << pc, company_data, frame, mc, result, error, rng, rng_at_call,
           db, outcome, app >>

\* The tables of init_db (app.py 30-106) before any request: the companies
\* joined with their financials, their updated_at, no valuation yet, and the
\* clock CURRENT_TIMESTAMP and datetime.now() read, in seconds.
InitialDb ==
    [companies |-> Companies,
     updated_at |-> [id \in DOMAIN Companies |-> 0],
     valuation_results |-> << >>,
     now |-> 0]

\* No request served yet.
NoRequest == [route |-> "none", company_id |-> 0, written |-> None,
              status |-> 0, body |-> None]

Init ==
    /\ pc = [w \in Workers |-> "idle"]
    /\ company_data = [w \in Workers |-> None]
    /\ frame = [w \in Workers |-> None]
    /\ mc = [w \in Workers |-> None]
    /\ result = [w \in Workers |-> None]
    /\ error = [w \in Workers |-> NoError]
    \* The generator is seeded from the operating system at import: any state.
    /\ rng \in 0..(RngStates - 1)
    /\ rng_at_call = [w \in Workers |-> None]
    /\ db = InitialDb
    /\ outcome = [w \in Workers |-> [calls |-> 0, returned |-> None]]
    /\ app = [w \in Workers |-> NoRequest]

\* A handler that hands back whatever the engine had computed when it raised.
ExceptResultPartial(f) == f

\* run_valuation's except branch, lines 153-156: the partial locals are
\* dropped and None is returned.
ExceptResult(f) == None

\* A section raised exc: the exception leaves enhanced_dcf_valuation and is
\* caught by run_valuation, which returns None.
Fail(w, exc) ==
    /\ pc' = [pc EXCEPT ![w] = "done"]
    /\ result' = [result EXCEPT ![w] = ExceptResult(frame[w])]
    /\ error' = [error EXCEPT ![w] = exc]
    /\ frame' = frame

\* A section that stores the terminal growth it used back into the dict.
InputAfterWriteBack(d, sec) ==
    IF ~sec.raised /\ "terminal_growth" \in DOMAIN sec.locals
    THEN [d EXCEPT !.terminal_growth = sec.locals.terminal_growth]
    ELSE d

\* The dict company_data as a section leaves it.  Lines 130-161 copy its
\* entries into locals and every later line, the clamp of line 223
\* included, assigns locals only: no line stores into the dict.
InputAfter(d, sec) == d

\* Worker w runs one section of enhanced_dcf_valuation.
Section(w, at, sec, next) ==
    /\ pc[w] = at
    /\ IF sec.raised
       THEN Fail(w, sec.exc)
       ELSE /\ frame' = [frame EXCEPT ![w] = @ @@ sec.locals]
            /\ pc' = [pc EXCEPT ![w] = next]
            /\ UNCHANGED << result, error >>
    /\ company_data' = [company_data EXCEPT ![w] = InputAfter(@, sec)]
    /\ UNCHANGED << mc, rng, rng_at_call >>
    /\ UNCHANGED << db, outcome, app >>

\* run_valuation(company_data), lines 135-142, entering
\* enhanced_dcf_valuation, lines 130-161.
Run(w, d) ==
    /\ pc' = [pc EXCEPT ![w] = "wacc"]
    /\ company_data' = [company_data EXCEPT ![w] = d]
    /\ frame' = [frame EXCEPT ![w] = [name |-> d.name, sector |-> d.sector]]
    /\ rng_at_call' = [rng_at_call EXCEPT ![w] = [rng |-> rng]]
    /\ result' = [result EXCEPT ![w] = None]
    /\ error' = [error EXCEPT ![w] = NoError]
    /\ UNCHANGED << mc, rng >>

\* run_valuation called by a client that has no call in progress.
Enter(w, d) == pc[w] \in {"idle", "finished"} /\ Run(w, d)

\* run_valuation called directly on a dict d.
Call(w, d) == Enter(w, d) /\ UNCHANGED << db, outcome, app >>

Wacc(w) ==
    Section(w, "wacc", WaccSection(company_data[w]), "projection")

Project(w) ==
    Section(w, "projection", ProjectionSection(company_data[w], frame[w]), "terminal")

Terminal(w) ==
    Section(w, "terminal", TerminalSection(company_data[w], frame[w]), "blend")

Blend(w) ==
    Section(w, "blend", BlendSection(company_data[w], frame[w]), "sensitivity")

Sensitivity(w) ==
    Section(w, "sensitivity", SensitivitySection(company_data[w], frame[w]), "montecarlo")

\* Line 334: the call monte_carlo_valuation(final_equity_value, 0.15, 0.10, n).
MonteCarloCall(w) ==
    /\ pc[w] = "montecarlo"
    /\ mc' = [mc EXCEPT ![w] =
                [base_value |-> frame[w].final_equity_value,
                 growth_volatility |-> GrowthVolatility,
                 discount_volatility |-> DiscountVolatility,
                 iterations |-> Iterations, results |-> << >>,
                 return_to |-> "recommend"]]
    /\ pc' = [pc EXCEPT ![w] = "mc_loop"]
    /\ UNCHANGED << company_data, frame, result, error, rng, rng_at_call >>
    /\ UNCHANGED << db, outcome, app >>

\* Lines 112-117: one iteration of the loop; its two draws advance the
\* process-wide generator.
MonteCarloIteration(w) ==
    /\ pc[w] = "mc_loop"
    /\ Len(mc[w].results) < mc[w].iterations
    /\ LET draw == MonteCarloDraw(mc[w].base_value, mc[w].growth_volatility,
                                  mc[w].discount_volatility, rng)
       IN  /\ rng' = draw.rng
           /\ IF draw.raised
              THEN Fail(w, "ZeroDivisionError") /\ mc' = mc
              ELSE /\ mc' = [mc EXCEPT ![w].results = Append(@, draw.adjusted_value)]
                   /\ UNCHANGED << pc, frame, result, error >>
    /\ UNCHANGED << company_data, rng_at_call >>
    /\ UNCHANGED << db, outcome, app >>

\* Lines 119-125: the summary is returned to the caller.
MonteCarloReturn(w) ==
    /\ pc[w] = "mc_loop"
    /\ Len(mc[w].results) = mc[w].iterations
    /\ LET summary == MonteCarloSummary(mc[w].results)
       IN  IF summary.raised
           THEN Fail(w, summary.exc)
           ELSE /\ frame' = [frame EXCEPT ![w] = @ @@ [mc_results |-> summary.locals]]
                /\ pc' = [pc EXCEPT ![w] = mc[w].return_to]
                /\ UNCHANGED << result, error >>
    /\ UNCHANGED << company_data, mc, rng, rng_at_call >>
    /\ UNCHANGED << db, outcome, app >>

Recommend(w) ==
    Section(w, "recommend", RecommendSection(company_data[w], frame[w]), "return")

\* Lines 391-414, and run_valuation's lines 144-148: the dict is not empty,
\* so it is returned.
Return(w) ==
    /\ pc[w] = "return"
    /\ result' = [result EXCEPT ![w] = ReturnValue(company_data[w], frame[w])]
    /\ pc' = [pc EXCEPT ![w] = "done"]
    /\ UNCHANGED << company_data, frame, mc, error, rng, rng_at_call >>
    /\ UNCHANGED << db, outcome, app >>

Step(w) ==
    \/ Wacc(w)
    \/ Project(w)
    \/ Terminal(w)
    \/ Blend(w)
    \/ Sensitivity(w)
    \/ MonteCarloCall(w)
    \/ MonteCarloIteration(w)
    \/ MonteCarloReturn(w)
    \/ Recommend(w)
    \/ Return(w)

\* One request at a time, on one thread.
Next ==
    \/ \E d \in Inputs : Call(1, d)
    \/ Step(1)

Spec == Init /\ [][Next]_vars

\* Concurrent requests, one per worker thread.
NextThreaded ==
    \E w \in Workers :
        \/ \E d \in ThreadedInputs : Call(w, d)
        \/ Step(w)

SpecThreaded == Init /\ [][NextThreaded]_vars

\* Two requests served one after the other: a worker moves only while no
\* other worker is inside a call.
Active(w) == pc[w] \notin {"idle", "done"}

Alone(w) == \A v \in Workers \ {w} : ~Active(v)

NextTwice ==
    \E w \in Workers :
        \/ \E d \in TwiceInputs : Alone(w) /\ Call(w, d)
        \/ Alone(w) /\ Wacc(w)
        \/ Alone(w) /\ Project(w)
        \/ Alone(w) /\ Terminal(w)
        \/ Alone(w) /\ Blend(w)
        \/ Alone(w) /\ Sensitivity(w)
        \/ Alone(w) /\ MonteCarloCall(w)
        \/ Alone(w) /\ MonteCarloIteration(w)
        \/ Alone(w) /\ MonteCarloReturn(w)
        \/ Alone(w) /\ Recommend(w)
        \/ Alone(w) /\ Return(w)

SpecTwice == Init /\ [][NextTwice]_vars

\* ------------------------------------------------------------------------
\* monte_carlo_valuation called on its own, with any base value and any
\* iteration count up to MaxMcIterations.
\* ------------------------------------------------------------------------

MaxMcIterations == 10

McBases == {-62271, -8, 0, 8, 10127}

InitMonteCarlo ==
    /\ pc = [w \in Workers |-> IF w = 1 THEN "mc_loop" ELSE "idle"]
    /\ company_data = [w \in Workers |-> None]
    /\ frame = [w \in Workers |-> IF w = 1 THEN [caller |-> "direct"] ELSE None]
    /\ \E b \in McBases, n \in 0..MaxMcIterations :
          mc = [w \in Workers |->
                  IF w = 1
                  THEN [base_value |-> b,
                        growth_volatility |-> GrowthVolatility,
                        discount_volatility |-> DiscountVolatility,
                        iterations |-> n, results |-> << >>,
                        return_to |-> "returned"]
                  ELSE None]
    /\ result = [w \in Workers |-> None]
    /\ error = [w \in Workers |-> NoError]
    /\ rng \in 0..(RngStates - 1)
    /\ rng_at_call = [w \in Workers |-> IF w = 1 THEN [rng |-> rng] ELSE None]
    /\ db = InitialDb
    /\ outcome = [w \in Workers |-> [calls |-> 0, returned |-> None]]
    /\ app = [w \in Workers |-> NoRequest]

NextMonteCarlo ==
    \/ MonteCarloIteration(1)
    \/ MonteCarloReturn(1)

SpecMonteCarlo == InitMonteCarlo /\ [][NextMonteCarlo]_vars

\* ------------------------------------------------------------------------
\* CompanyFinancials  (models.py 11-130): the field constraints, the two
\* field validators and the three model validators.
\* ------------------------------------------------------------------------

\* A lower bound that is itself accepted (ge where the field says gt).
Ge(v, bound) == v >= bound

\* Field(gt=bound).
Gt(v, bound) == v > bound

\* Field(ge=lo, le=hi).
Between(v, lo, hi) == v >= lo /\ v <= hi

\* The fields whose declared constraint (lines 17-56) the record breaks.
\* (max_length is not modelled: names are short.)
ConstraintErrors(d) ==
    {f \in {"name"} : d.name = ""}
    \cup {f \in {"sector"} : d.sector = ""}
    \cup {f \in {"revenue"} : ~Gt(d.revenue, 0)}
    \cup {f \in {"depreciation"} : d.depreciation < 0}
    \cup {f \in {"capex_pct"} : ~Between(d.capex_pct, 0, RS)}
    \cup {f \in {"profit_margin"} : ~Between(d.profit_margin, -RS, RS)}
    \cup {f \in {"growth_rate_y1"} : ~Between(d.growth_rate_y1, -500, 2000)}
    \cup {f \in {"growth_rate_y2"} : ~Between(d.growth_rate_y2, -500, 2000)}
    \cup {f \in {"growth_rate_y3"} : ~Between(d.growth_rate_y3, -500, 2000)}
    \cup {f \in {"terminal_growth"} : ~Between(d.terminal_growth, -100, 150)}
    \cup {f \in {"tax_rate"} : ~Between(d.tax_rate, 0, RS)}
    \cup {f \in {"shares_outstanding"} : ~Gt(d.shares_outstanding, 0)}
    \cup {f \in {"debt"} : d.debt < 0}
    \cup {f \in {"cash"} : d.cash < 0}
    \cup {f \in {"market_cap_estimate"} : ~Gt(d.market_cap_estimate, 0)}
    \cup {f \in {"beta"} : ~Between(d.beta, -3000, 5000)}
    \cup {f \in {"risk_free_rate"} : ~Between(d.risk_free_rate, 0, 200)}
    \cup {f \in {"market_risk_premium"} : ~Between(d.market_risk_premium, 0, 300)}
    \cup {f \in {"country_risk_premium"} : ~Between(d.country_risk_premium, 0, 250)}
    \cup {f \in {"size_premium"} : ~Between(d.size_premium, 0, 200)}
    \cup {f \in {"comparable_ev_ebitda"} : ~Between(d.comparable_ev_ebitda, 0, 100 * RS)}
    \cup {f \in {"comparable_pe"} : ~Between(d.comparable_pe, 0, 200 * RS)}
    \cup {f \in {"comparable_peg"} : ~Between(d.comparable_peg, 0, 10 * RS)}

\* Lines 58-73.  The validator sees revenue in info.data only when revenue
\* passed its own constraint, which makes it positive.
validate_ebitda(d, bad) ==
    IF "revenue" \notin bad /\ d.revenue > 0
       /\ (d.ebitda < -3 * d.revenue \/ d.ebitda > 2 * d.revenue)
    THEN {"ebitda"} ELSE {}

\* Lines 75-85.  Runs when depreciation passed ge=0; needs ebitda and
\* revenue in info.data.
validate_depreciation(d, bad) ==
    IF "depreciation" \notin bad /\ "ebitda" \notin bad /\ "revenue" \notin bad
       /\ d.revenue > 0 /\ 2 * d.depreciation > d.revenue
    THEN {"depreciation"} ELSE {}

\* Lines 87-96.
validate_growth_trajectory(d) ==
    \/ d.growth_rate_y1 > RS /\ d.growth_rate_y2 > d.growth_rate_y1
    \/ d.terminal_growth >= Min(d.growth_rate_y1, Min(d.growth_rate_y2, d.growth_rate_y3))

\* Lines 98-111.
validate_capital_structure(d) ==
    \/ d.market_cap_estimate + d.debt - d.cash <= 0
    \/ d.market_cap_estimate > 0 /\ d.debt > 10 * d.market_cap_estimate

\* Lines 113-130.
validate_wacc_inputs(d) ==
    LET coe == d.risk_free_rate + Mul(d.beta, d.market_risk_premium)
               + d.country_risk_premium + d.size_premium
    IN  \/ coe <= 0
        \/ coe > 500
        \/ coe <= d.terminal_growth

\* CompanyFinancials(**d): the errors of the ValidationError it raises, none
\* when the record is accepted.  The model validators (mode='after') run
\* only on a record whose fields all passed, in the order of definition,
\* and the first that raises ends the validation.
CompanyFinancials(d) ==
    LET constraint == ConstraintErrors(d)
        ebitda_errors == validate_ebitda(d, constraint)
        field == constraint \cup ebitda_errors
                 \cup validate_depreciation(d, constraint \cup ebitda_errors)
        errors == IF field # {} THEN field
                  ELSE IF validate_growth_trajectory(d) THEN {"growth_trajectory"}
                  ELSE IF validate_capital_structure(d) THEN {"capital_structure"}
                  ELSE IF validate_wacc_inputs(d) THEN {"wacc_inputs"}
                  ELSE {}
    IN  [accepted |-> errors = {}, errors |-> errors]

\* ------------------------------------------------------------------------
\* The helper functions called on their own.  A call is one step: the
\* caller's frame holds the function, its arguments and what it returned.
\* ------------------------------------------------------------------------

\* The generator plays no part in these calls.
InitUnit == Init /\ rng = 0

UnitCall(w, fn, args, ret) ==
    /\ pc[w] = "idle"
    /\ pc' = [pc EXCEPT ![w] = "returned"]
    /\ frame' = [frame EXCEPT ![w] = [fn |-> fn, args |-> args, ret |-> ret]]
    /\ UNCHANGED << company_data, mc, result, error, rng, rng_at_call >>
    /\ UNCHANGED << db, outcome, app >>

\* calculate_financial_ratios(revenue, ebitda, profit, debt, cash,
\* equity_value, shares, fcf) on arguments of every sign.
RatioArgs ==
    [revenue : {-10, 0, 40}, ebitda : {-5, 0, 8}, profit : {-2, 0, 4},
     debt : {-3, 0, 20}, cash : {0, 5}, equity_value : {-30, 0, 100},
     shares : {-1, 0, 10}, fcf : {-3, 6}]

CallRatios(w, a) ==
    UnitCall(w, "calculate_financial_ratios", a,
             calculate_financial_ratios(a.revenue, a.ebitda, a.profit, a.debt,
                                        a.cash, a.equity_value, a.shares, a.fcf))

NextRatios == \E a \in RatioArgs : CallRatios(1, a)

SpecRatios == InitUnit /\ [][NextRatios]_vars

\* calculate_wacc(risk_free_rate, beta, market_risk_premium, debt,
\* equity_value, tax_rate, country_risk, size_premium), called by each worker
\* on arguments of its own.
WaccArgs ==
    [rf : {40}, beta : {-1000, 500, 1500}, mrp : {0, 70},
     debt : {0, 1500, 1750}, equity_value : {0, 1500}, tax_rate : {0, 250},
     country_risk : {0}, size_premium : {30}]

CallWacc(w, a) ==
    UnitCall(w, "calculate_wacc", a,
             calculate_wacc(a.rf, a.beta, a.mrp, a.debt, a.equity_value,
                            a.tax_rate, a.country_risk, a.size_premium))

NextWacc == \E w \in Workers : \E a \in WaccArgs : CallWacc(w, a)

SpecWacc == InitUnit /\ [][NextWacc]_vars

\* altman_z_score(revenue, ebitda, equity_value, debt, working_capital) on
\* arguments whose score falls on, just above and far from 1.81 and 2.99,
\* with and without debt and assets.
AltmanArgs ==
    [revenue : {100, 1210, 1211, 2390, 2391}, ebitda : {-100, 0, 100},
     equity_value : {0, 500}, debt : {0, 500},
     working_capital : {-50, 0, 50}]

CallAltman(w, a) ==
    UnitCall(w, "altman_z_score", a,
             altman_z_score(a.revenue, a.ebitda, a.equity_value, a.debt,
                            a.working_capital))

NextAltman == \E a \in AltmanArgs : CallAltman(1, a)

SpecAltman == InitUnit /\ [][NextAltman]_vars

\* ------------------------------------------------------------------------
\* ValuationService.valuate_company  (valuation_service.py 217-250):
\* fetch_company_data, run_valuation, save_valuation_results.
\* ------------------------------------------------------------------------

\* Calls of valuate_company one worker makes.
MaxCalls == 2

\* The ids callers ask for: the companies of the table and an id it lacks.
RequestedIds == {1, 2, 3}

\* fetch_company_data, lines 42-84: the row as a dict, None when there is no
\* such company or the query raised.
fetch_company_data(companies, company_id, db_ok) ==
    IF db_ok /\ company_id \in DOMAIN companies
    THEN companies[company_id]
    ELSE None

\* The columns the INSERT of lines 176-181 takes from the results.
SavedFields ==
    {"dcf_equity_value", "dcf_price_per_share", "comp_ev_value", "comp_pe_value",
     "final_equity_value", "final_price_per_share", "market_cap", "current_price",
     "upside_pct", "recommendation", "wacc", "ev_ebitda", "pe_ratio", "fcf_yield",
     "roe", "roic", "debt_to_equity", "z_score", "mc_p10", "mc_p90"}

\* The row of lines 182-204; id is the table's AUTOINCREMENT key and
\* valuation_date its DEFAULT CURRENT_TIMESTAMP (app.py 75-76).
ValuationRow(rows, company_id, results) ==
    [id |-> Len(rows) + 1, company_id |-> company_id,
     valuation_date |-> db.now]
    @@ [k \in SavedFields |-> results[k]]

\* A write that keeps one row per company, overwriting the earlier one.
ReplaceRow(rows, row) ==
    IF \E i \in DOMAIN rows : rows[i].company_id = row.company_id
    THEN [i \in DOMAIN rows |->
             IF rows[i].company_id = row.company_id THEN row ELSE rows[i]]
    ELSE Append(rows, row)

\* INSERT INTO valuation_results, line 176, and the commit of line 206.
InsertRow(rows, row) == Append(rows, row)

\* valuate_company(company_id), lines 229-233: the fetch, the early return
\* when it found nothing, else the call of run_valuation (line 236).
FetchAndRun(w, company_id, db_ok) ==
    LET fetched == fetch_company_data(db.companies, company_id, db_ok)
    IN  /\ outcome[w].calls < MaxCalls
        /\ IF fetched = None
           THEN /\ pc' = [pc EXCEPT ![w] = "finished"]
                /\ outcome' = [outcome EXCEPT ![w] =
                       [calls |-> @.calls + 1,
                        returned |-> [success |-> FALSE, results |-> None,
                                      error_msg |-> "not found",
                                      company_id |-> company_id]]]
                /\ company_data' = [company_data EXCEPT ![w] = None]
                /\ result' = [result EXCEPT ![w] = None]
                /\ error' = [error EXCEPT ![w] = NoError]
                /\ UNCHANGED << frame, mc, rng, rng_at_call >>
           ELSE /\ Run(w, fetched)
                /\ outcome' = [outcome EXCEPT ![w] =
                       [calls |-> @.calls + 1, returned |-> None]]
        /\ db' = db

\* valuate_company called by a client that has no call in progress.
ValuateCompany(w, company_id, db_ok) ==
    /\ pc[w] \in {"idle", "finished"}
    /\ FetchAndRun(w, company_id, db_ok)
    /\ app' = app

\* A return that hands back no results whenever it reports a failure.
WorkflowReturnWithoutResults(results, save_success, company_id) ==
    IF results # None /\ save_success
    THEN [success |-> TRUE, results |-> results, error_msg |-> NoError,
          company_id |-> company_id]
    ELSE [success |-> FALSE, results |-> None, error_msg |-> "failed",
          company_id |-> company_id]

\* The tuples valuate_company returns once run_valuation has returned:
\* line 240 (no results), line 247 (not saved), line 250 (saved).
WorkflowReturn(results, save_success, company_id) ==
    IF results = None
    THEN [success |-> FALSE, results |-> None,
          error_msg |-> "valuation failed", company_id |-> company_id]
    ELSE IF ~save_success
    THEN [success |-> FALSE, results |-> results,
          error_msg |-> "failed to save", company_id |-> company_id]
    ELSE [success |-> TRUE, results |-> results,
          error_msg |-> NoError, company_id |-> company_id]

\* valuate_company, lines 237-250, once run_valuation has returned: the
\* early return on a failed valuation, else save_valuation_results (lines
\* 169-215), whose INSERT either commits or raises (db_ok), and the return.
Save(w, db_ok) ==
    LET company_id == company_data[w].id
        save_success == db_ok
    IN  /\ pc[w] = "done"
        /\ pc' = [pc EXCEPT ![w] = "finished"]
        /\ outcome' = [outcome EXCEPT ![w].returned =
               WorkflowReturn(result[w], save_success, company_id)]
        /\ IF result[w] # None /\ save_success
           THEN db' = [db EXCEPT !.valuation_results =
                       InsertRow(@, ValuationRow(@, company_id, result[w]))]
           ELSE db' = db
        /\ UNCHANGED << company_data, frame, mc, result, error, rng, rng_at_call >>

\* valuate_company finishing for a caller that only takes its return.
SaveAndReturn(w, db_ok) == Save(w, db_ok) /\ app' = app

\* One client calling valuate_company again and again.
NextService ==
    \/ \E company_id \in RequestedIds, db_ok \in BOOLEAN :
          ValuateCompany(1, company_id, db_ok)
    \/ Step(1)
    \/ \E db_ok \in BOOLEAN : SaveAndReturn(1, db_ok)

SpecService == Init /\ [][NextService]_vars

\* CompanyFinancials(**record) on the record of test_validation.py (lines
\* 12-38, money / 2000) with fields moved in and out of their domains.
ValidRecord ==
    [name |-> "Test Company", sector |-> "Technology",
     revenue |-> 500, ebitda |-> 150, depreciation |-> 25,
     capex_pct |-> 50, working_capital_change |-> 0, profit_margin |-> 150,
     growth_rate_y1 |-> 200, growth_rate_y2 |-> 150, growth_rate_y3 |-> 100,
     terminal_growth |-> 30, tax_rate |-> 250,
     shares_outstanding |-> 500, debt |-> 250, cash |-> 100,
     market_cap_estimate |-> 1000,
     beta |-> 1200, risk_free_rate |-> 40, market_risk_premium |-> 70,
     country_risk_premium |-> 0, size_premium |-> 20,
     comparable_ev_ebitda |-> 10000, comparable_pe |-> 20000,
     comparable_peg |-> 1500]

ValidationRecords ==
    { [ValidRecord EXCEPT !.revenue = rev, !.tax_rate = tax, !.ebitda = e,
                          !.depreciation = dep, !.terminal_growth = tg,
                          !.growth_rate_y3 = g3, !.cash = c, !.beta = b] :
        rev \in {-500, 0, 500}, tax \in {-100, 0, 250, 1000, 1500},
        e \in {-1600, 150, 1100}, dep \in {25, 300}, tg \in {30, 200},
        g3 \in {20, 100}, c \in {100, 5000}, b \in {-3000, 1200} }

Validate(w, d) == UnitCall(w, "CompanyFinancials", d, CompanyFinancials(d))

NextValidation == \E d \in ValidationRecords : Validate(1, d)

SpecValidation == InitUnit /\ [][NextValidation]_vars

\* Records around the rule of validate_wacc_inputs: cost of equity above,
\* at and below the terminal growth, with little and much debt, taxed and
\* untaxed.
WaccRecords ==
    { [ValidRecord EXCEPT !.beta = b, !.size_premium = sp, !.debt = debt,
                          !.tax_rate = tax, !.terminal_growth = tg,
                          !.market_cap_estimate = cap] :
        b \in {0, 1200}, sp \in {20, 30}, debt \in {0, 250, 5000},
        tax \in {0, 250, 1000}, tg \in {30, 60, 70, 90},
        cap \in {1000, 5000} }

\* CompanyFinancials(**d) and then, as enhanced_dcf_valuation does on the
\* stored record (lines 168-170), calculate_wacc on its fields.
ValidateAndWacc(w, d) ==
    UnitCall(w, "validate_wacc", d,
             [validated |-> CompanyFinancials(d),
              wacc |-> calculate_wacc(d.risk_free_rate, d.beta,
                                      d.market_risk_premium, d.debt,
                                      d.market_cap_estimate, d.tax_rate,
                                      d.country_risk_premium, d.size_premium)])

NextAccepted == \E d \in WaccRecords : ValidateAndWacc(1, d)

SpecAccepted == InitUnit /\ [][NextAccepted]_vars

\* ------------------------------------------------------------------------
\* app.py: the routes that write and read the tables, each request served by
\* a worker thread of its own.
\* ------------------------------------------------------------------------

\* Seconds the clock advances over.
MaxTime == 2

\* A second passes.
Tick ==
    /\ db.now < MaxTime
    /\ db' = [db EXCEPT !.now = @ + 1]
    /\ UNCHANGED << pc, company_data, frame, mc, result, error, rng,
                    rng_at_call, outcome, app >>

\* Worker w has no request in progress.
Ready(w) ==
    /\ pc[w] \in {"idle", "finished"}
    /\ app[w].route = "none" \/ app[w].status # 0

\* The bodies of PUT /api/company/<id>: two records the schema accepts, which
\* differ in what the market pays and in the multiples, and one it rejects.
UpdateRecords ==
    { [Base EXCEPT !.market_cap_estimate = 2000, !.comparable_pe = 20000],
      [Base EXCEPT !.market_cap_estimate = 1000, !.comparable_ev_ebitda = 10000],
      [Base EXCEPT !.revenue = 0] }

\* update_company, lines 303-313, and run_valuation (the route), lines
\* 353-360: the status of the response to what valuate_company returned.
ResponseStatus(route, returned) ==
    IF returned.success THEN 200
    ELSE IF route = "update" THEN 207
    ELSE IF returned.error_msg = "not found" THEN 404
    ELSE 500

\* The request of worker w once valuate_company has returned (or not yet).
Respond(req, returned) ==
    IF returned = None THEN req
    ELSE [req EXCEPT !.status = ResponseStatus(req.route, returned),
                     !.body = returned]

\* update_company(company_id), lines 257-299: CompanyUpdate(**data), then
\* the two UPDATEs and their commit.  A rejected body is answered 400 (line
\* 315-328) and a database error 500 (329-331), nothing written.
UpdateCompany(w, company_id, data, db_ok) ==
    LET validated == CompanyFinancials(data)
        request == [route |-> "update", company_id |-> company_id,
                    written |-> None, status |-> 0, body |-> None]
    IN  /\ Ready(w)
        /\ outcome[w].calls < MaxCalls
        /\ IF ~validated.accepted
           THEN /\ app' = [app EXCEPT ![w] =
                       [request EXCEPT !.status = 400, !.body = validated]]
                /\ UNCHANGED << pc, db >>
           ELSE IF ~db_ok
           THEN /\ app' = [app EXCEPT ![w] = [request EXCEPT !.status = 500]]
                /\ UNCHANGED << pc, db >>
           ELSE /\ app' = [app EXCEPT ![w] = [request EXCEPT !.written = data]]
                /\ pc' = [pc EXCEPT ![w] = "updated"]
                /\ db' = IF company_id \in DOMAIN db.companies
                         THEN [db EXCEPT
                                 !.companies[company_id] = data @@ [id |-> company_id],
                                 !.updated_at[company_id] = db.now]
                         ELSE db
        /\ UNCHANGED << company_data, frame, mc, result, error, rng,
                        rng_at_call, outcome >>

\* update_company, line 303: the automatic revaluation, and the 207 of
\* lines 310-313 when valuate_company found no company.
Revalue(w, db_ok) ==
    /\ pc[w] = "updated"
    /\ FetchAndRun(w, app[w].company_id, db_ok)
    /\ app' = [app EXCEPT ![w] = Respond(@, outcome'[w].returned)]

\* run_valuation(company_id), the route of lines 347-353: valuate_company on
\* request.
RequestValuation(w, company_id, db_ok) ==
    /\ Ready(w)
    /\ FetchAndRun(w, company_id, db_ok)
    /\ app' = [app EXCEPT ![w] =
           Respond([route |-> "valuation", company_id |-> company_id,
                    written |-> None, status |-> 0, body |-> None],
                   outcome'[w].returned)]

\* valuate_company finishing inside a route, and the route's response.
SaveAndRespond(w, db_ok) ==
    /\ app[w].route \in {"update", "valuation"}
    /\ Save(w, db_ok)
    /\ app' = [app EXCEPT ![w] = Respond(@, outcome'[w].returned)]

\* ------------------------------------------------------------------------
\* ValuationService.batch_valuate_all  (valuation_service.py 252-300)
\* ------------------------------------------------------------------------

\* The company names in use, in the order ORDER BY c.name puts them.
NamesInOrder ==
    << "Other Corp", "Shell Corp", "Slow Corp", "TechStartup Inc",
       "Test Company" >>

NameRank(name) == CHOOSE i \in DOMAIN NamesInOrder : NamesInOrder[i] = name

\* fetch_all_companies, lines 88-123: the joined rows ordered by name, the
\* empty list when the query raised.
RECURSIVE OrderedByName(_, _)
OrderedByName(companies, ids) ==
    IF ids = {} THEN << >>
    ELSE LET first == CHOOSE i \in ids :
                 \A j \in ids :
                     \/ NameRank(companies[i].name) < NameRank(companies[j].name)
                     \/ /\ NameRank(companies[i].name) = NameRank(companies[j].name)
                        /\ i <= j
         IN  << companies[first] >> \o OrderedByName(companies, ids \ {first})

fetch_all_companies(companies, db_ok) ==
    IF db_ok THEN OrderedByName(companies, DOMAIN companies) ELSE << >>

\* Lines 269-275.
NewSummary(companies) ==
    [total |-> Len(companies), successful |-> 0, failed |-> 0,
     results |-> << >>, errors |-> << >>]

\* A tally that counts a valuation handed back unsaved as neither.
TallyResultsAsDone(summary, company, returned) ==
    IF returned.success
    THEN [summary EXCEPT
            !.successful = @ + 1,
            !.results = Append(@, [company_id |-> company.id,
                                   company_name |-> company.name,
                                   recommendation |-> returned.results.recommendation,
                                   fair_value |-> returned.results.final_equity_value])]
    ELSE IF returned.results # None THEN summary
    ELSE [summary EXCEPT
            !.failed = @ + 1,
            !.errors = Append(@, [company_id |-> company.id,
                                  company_name |-> company.name,
                                  error |-> returned.error_msg])]

\* Lines 283-297: what one company's (success, results, error_msg) adds.
Tally(summary, company, returned) ==
    IF returned.success
    THEN [summary EXCEPT
            !.successful = @ + 1,
            !.results = Append(@, [company_id |-> company.id,
                                   company_name |-> company.name,
                                   recommendation |-> returned.results.recommendation,
                                   fair_value |-> returned.results.final_equity_value])]
    ELSE [summary EXCEPT
            !.failed = @ + 1,
            !.errors = Append(@, [company_id |-> company.id,
                                  company_name |-> company.name,
                                  error |-> returned.error_msg])]

\* A loop that gives up at the first company that fails.
NextCompanyUnlessFailed(index, total, returned) ==
    IF returned.success THEN index + 1 ELSE total + 1

\* Line 277: the for loop moves to the next company whatever was returned.
NextCompany(index, total, returned) == index + 1

\* The batch of worker w once valuate_company has returned (or not yet).
AfterCompany(req, returned) ==
    IF returned = None THEN req
    ELSE [req EXCEPT
            !.body.summary = Tally(@, req.body.companies[req.body.index], returned),
            !.body.index = NextCompany(@, Len(req.body.companies), returned)]

\* batch_valuate_all, lines 265-275: the fetch and the empty summary.
BatchStart(w, db_ok) ==
    LET companies == fetch_all_companies(db.companies, db_ok)
    IN  /\ Ready(w)
        /\ app[w].route = "none"
        /\ app' = [app EXCEPT ![w] =
               [route |-> "batch", company_id |-> 0, written |-> None,
                status |-> 0,
                body |-> [companies |-> companies, index |-> 1,
                          attempts |-> << >>,
                          summary |-> NewSummary(companies)]]]
        /\ UNCHANGED << pc, company_data, frame, mc, result, error, rng,
                        rng_at_call, db, outcome >>

\* Worker w's batch is between two companies, or past the last.
InBatch(w) ==
    /\ app[w].route = "batch" /\ app[w].status = 0
    /\ pc[w] \in {"idle", "finished"}

\* Lines 277-281: the next company of the list, and valuate_company on its
\* id; the company is tallied at once when the fetch found nothing.
BatchValuate(w, db_ok) ==
    LET body == app[w].body
        company == body.companies[body.index]
    IN  /\ InBatch(w)
        /\ body.index <= Len(body.companies)
        /\ FetchAndRun(w, company.id, db_ok)
        /\ app' = [app EXCEPT ![w] =
               AfterCompany([@ EXCEPT !.body.attempts = Append(@, company.id)],
                            outcome'[w].returned)]

\* valuate_company finishing inside the loop, and lines 283-297.
BatchSave(w, db_ok) ==
    /\ app[w].route = "batch"
    /\ Save(w, db_ok)
    /\ app' = [app EXCEPT ![w] = AfterCompany(@, outcome'[w].returned)]

\* Lines 299-300: the loop is over and the summary is returned.
BatchReturn(w) ==
    /\ InBatch(w)
    /\ app[w].body.index > Len(app[w].body.companies)
    /\ app' = [app EXCEPT ![w].status = 200]
    /\ UNCHANGED << pc, company_data, frame, mc, result, error, rng,
                    rng_at_call, db, outcome >>

\* run_valuations.py: one process running one batch.
NextBatch ==
    \/ \E db_ok \in BOOLEAN : BatchStart(1, db_ok)
    \/ \E db_ok \in BOOLEAN : BatchValuate(1, db_ok)
    \/ Step(1)
    \/ \E db_ok \in BOOLEAN : BatchSave(1, db_ok)
    \/ BatchReturn(1)

SpecBatch == Init /\ [][NextBatch]_vars

\* The process keeps running until the batch has returned: a step that is
\* possible is eventually taken.
SpecBatchFair == SpecBatch /\ WF_vars(NextBatch)

\* The columns of valuation_results, app.py 74-97.
ValuationColumns == {"id", "company_id", "valuation_date"} \cup SavedFields

\* What .get('created_at', '') gives for a dict without the key: the empty
\* string, which sorts before every timestamp.
NoDate == -1

\* get_latest_valuation(company_id), valuation_service.py 312-332: the query
\* orders by created_at; when the table has no such column execute raises,
\* and the except branch returns None.
get_latest_valuation(rows, company_id) ==
    LET mine == {i \in DOMAIN rows : rows[i].company_id = company_id}
    IN  IF "created_at" \notin ValuationColumns THEN None
        ELSE IF mine = {} THEN None
        ELSE rows[CHOOSE i \in mine :
                     \A j \in mine : rows[j].created_at <= rows[i].created_at]

\* check_valuation_staleness(company_id, updated_at), lines 345-359.
check_valuation_staleness(rows, company_id, updated_at) ==
    LET latest_valuation == get_latest_valuation(rows, company_id)
    IN  IF latest_valuation = None THEN TRUE
        ELSE LET valuation_date ==
                     IF "created_at" \in DOMAIN latest_valuation
                     THEN latest_valuation.created_at ELSE NoDate
             IN  valuation_date < updated_at

\* A caller asks whether company_id's valuation is stale, passing the
\* updated_at of the company's row.
CheckStaleness(w, company_id) ==
    /\ Ready(w)
    /\ company_id \in DOMAIN db.companies
    /\ app' = [app EXCEPT ![w] =
           [route |-> "staleness", company_id |-> company_id,
            written |-> None, status |-> 200,
            body |-> [updated_at |-> db.updated_at[company_id],
                      stale |-> check_valuation_staleness(
                                    db.valuation_results, company_id,
                                    db.updated_at[company_id]),
                      rows |-> Len(db.valuation_results)]]]
    /\ UNCHANGED << pc, company_data, frame, mc, result, error, rng,
                    rng_at_call, db, outcome >>

\* The ids of company_id's rows in rows.
RowsOf(rows, company_id) ==
    {i \in DOMAIN rows : rows[i].company_id = company_id}

\* get_companies, app.py 115-123: each company joined with its row of
\* valuation_results whose id is MAX(id); 0 stands for no row (NULLs).
ListLatest(rows, company_id) ==
    LET mine == RowsOf(rows, company_id)
    IN  IF mine = {} THEN 0
        ELSE rows[CHOOSE i \in mine : \A j \in mine : j <= i].id

GetCompanies(w) ==
    /\ Ready(w)
    /\ app' = [app EXCEPT ![w] =
           [route |-> "companies", company_id |-> 0, written |-> None,
            status |-> 200,
            body |-> [latest |-> [id \in DOMAIN db.companies |->
                                     ListLatest(db.valuation_results, id)],
                      rows |-> Len(db.valuation_results)]]]
    /\ UNCHANGED << pc, company_data, frame, mc, result, error, rng,
                    rng_at_call, db, outcome >>

\* get_company, app.py 168: ORDER BY valuation_date DESC LIMIT 1.  Rows with
\* the same valuation_date come in an order the query does not fix: any of
\* the rows with the greatest valuation_date can be the one returned.
DetailLatest(rows, company_id) ==
    LET mine == RowsOf(rows, company_id)
    IN  {rows[i].id : i \in {i \in mine :
            \A j \in mine : rows[j].valuation_date <= rows[i].valuation_date}}

\* get_company(company_id), app.py 150-194; 404 when there is no such
\* company, 'valuation': None (0 here) when it has no row.
GetCompany(w, company_id) ==
    /\ Ready(w)
    /\ \E valuation \in IF DetailLatest(db.valuation_results, company_id) = {}
                        THEN {0}
                        ELSE DetailLatest(db.valuation_results, company_id) :
          app' = [app EXCEPT ![w] =
              [route |-> "company", company_id |-> company_id,
               written |-> None,
               status |-> IF company_id \in DOMAIN db.companies
                          THEN 200 ELSE 404,
               body |-> [valuation |-> valuation,
                         rows |-> Len(db.valuation_results)]]]
    /\ UNCHANGED << pc, company_data, frame, mc, result, error, rng,
                    rng_at_call, db, outcome >>

\* The client that writes, and those that only read.
Writer == 1
Readers == Workers \ {Writer}

\* One client updating and valuing companies while the clock runs, and
\* clients reading the list, the detail view and the staleness.
NextApp ==
    \/ Tick
    \/ \E company_id \in RequestedIds, db_ok \in BOOLEAN :
          RequestValuation(Writer, company_id, db_ok)
    \/ \E data \in UpdateRecords, db_ok \in BOOLEAN :
          UpdateCompany(Writer, 1, data, db_ok)
    \/ \E db_ok \in BOOLEAN : Revalue(Writer, db_ok)
    \/ Step(Writer)
    \/ \E db_ok \in BOOLEAN : SaveAndRespond(Writer, db_ok)
    \/ \E w \in Workers : GetCompanies(w)
    \/ \E w \in Readers, company_id \in RequestedIds : GetCompany(w, company_id)
    \/ \E w \in Readers, company_id \in DOMAIN Companies :
          CheckStaleness(w, company_id)

\* What the routes read and write does not depend on how the generator was
\* seeded: one seed.
InitApp == Init /\ rng = 0

SpecApp == InitApp /\ [][NextApp]_vars

\* Two clients updating company 1 at the same time, one request each.
NextConcurrentUpdates ==
    \E w \in Workers :
        \/ \E data \in UpdateRecords, db_ok \in BOOLEAN :
              /\ outcome[w].calls = 0 /\ app[w].route = "none"
              /\ UpdateCompany(w, 1, data, db_ok)
        \/ \E db_ok \in BOOLEAN : Revalue(w, db_ok)
        \/ Step(w)
        \/ \E db_ok \in BOOLEAN : SaveAndRespond(w, db_ok)

SpecConcurrentUpdates == Init /\ [][NextConcurrentUpdates]_vars

\* ========================================================================
\* Properties.
\* ========================================================================

Done(w) == pc[w] = "done"
Called(w) == company_data[w] # None
Has(w, field) == field \in DOMAIN frame[w]
Returned(w) == result[w] # None

Sign(x) == IF x > 0 THEN 1 ELSE IF x < 0 THEN -1 ELSE 0

\* The three structural rules the facade is to enforce.
StructurallyInvalid(d) ==
    \/ d.revenue <= 0
    \/ d.shares_outstanding <= 0
    \/ d.tax_rate < 0
    \/ d.tax_rate > RS

\* A structurally valid input.
StructurallyValid(d) ==
    /\ d.revenue > 0
    /\ d.shares_outstanding > 0
    /\ d.market_cap_estimate > 0
    /\ d.debt >= 0
    /\ d.cash >= 0
    /\ d.tax_rate >= 0
    /\ d.tax_rate <= RS

\* C1 (as claimed): no valuation output is ever produced from an input whose
\* revenue is <= 0, whose shares_outstanding is <= 0 or whose tax_rate lies
\* outside [0, 1]: such a call is rejected.
C1_InvalidInputRejected ==
    \A w \in Workers :
        (Called(w) /\ StructurallyInvalid(company_data[w])) => ~Returned(w)

\* The terminal value has been computed with WACC <= terminal_growth.
ClampFired(w) ==
    /\ Has(w, "terminal_value")
    /\ frame[w].wacc <= company_data[w].terminal_growth

\* C2 (as claimed): whenever terminal_growth >= WACC, the terminal value the
\* engine computes is strictly positive.
C2_ClampedTerminalValuePositive ==
    \A w \in Workers : ClampFired(w) => frame[w].terminal_value > 0

\* C2 (amended): whenever the engine computes a terminal value with
\* terminal_growth >= WACC, the growth rate is clamped to WACC - 0.01, the
\* denominator WACC - growth is 0.01 > 0, the terminal value is
\* terminal_fcf / 0.01 and has the sign of terminal_fcf; and the division by
\* that denominator never raises (a call that raises in this section does so
\* on shares_outstanding == 0).
C2_ClampedTerminalValue ==
    \A w \in Workers :
        /\ ClampFired(w) =>
              /\ frame[w].terminal_growth = frame[w].wacc - 10
              /\ frame[w].tv_denominator = 10
              /\ frame[w].tv_denominator > 0
              /\ frame[w].terminal_value * 10 = frame[w].terminal_fcf * RS
              /\ Sign(frame[w].terminal_value) = Sign(frame[w].terminal_fcf)
        /\ ( /\ Done(w) /\ error[w] # NoError
             /\ Has(w, "projected_fcf") /\ ~Has(w, "terminal_value")
             /\ frame[w].wacc <= company_data[w].terminal_growth )
           => company_data[w].shares_outstanding = 0

\* C2 witness: the clamp fired on WACC == terminal_growth and the terminal
\* value came out positive.
C2_Witness ==
    \E w \in Workers :
        /\ ClampFired(w)
        /\ frame[w].wacc = company_data[w].terminal_growth
        /\ frame[w].terminal_value > 0

\* C3: the recommendation of every output is the band of its upside_pct:
\* > 20 STRONG BUY, (10, 20] BUY, (-10, 10] HOLD, (-20, -10] UNDERWEIGHT,
\* <= -20 SELL; the bands are disjoint and cover every value; 20.00 is BUY,
\* 20.01 is STRONG BUY and -10.00 is UNDERWEIGHT.
C3_RecommendationBands ==
    \A w \in Workers :
        Returned(w) =>
            LET u == result[w].upside_pct
                r == result[w].recommendation
            IN  /\ (r = "STRONG BUY") <=> (u > 2000)
                /\ (r = "BUY") <=> (u > 1000 /\ u <= 2000)
                /\ (r = "HOLD") <=> (u > -1000 /\ u <= 1000)
                /\ (r = "UNDERWEIGHT") <=> (u > -2000 /\ u <= -1000)
                /\ (r = "SELL") <=> (u <= -2000)
                /\ r \in {"STRONG BUY", "BUY", "HOLD", "UNDERWEIGHT", "SELL"}
                /\ (u = 2000 => r = "BUY")
                /\ (u = 2001 => r = "STRONG BUY")
                /\ (u = -1000 => r = "UNDERWEIGHT")

\* C3 witness: an output whose upside is exactly 20.00 percent, rated BUY.
C3_Witness ==
    \E w \in Workers :
        /\ Returned(w)
        /\ result[w].upside_pct = 2000
        /\ result[w].recommendation = "BUY"

\* C4 (as claimed): a run on an input whose total capital (debt + equity
\* value) is zero completes with an output whose WACC is the CAPM cost of
\* equity.
C4_ZeroCapitalValued ==
    \A w \in Workers :
        ( /\ Done(w)
          /\ company_data[w].debt + company_data[w].market_cap_estimate = 0 )
        => /\ Returned(w)
           /\ result[w].wacc =
                  cost_of_equity(company_data[w].risk_free_rate,
                                 company_data[w].beta,
                                 company_data[w].market_risk_premium,
                                 company_data[w].country_risk_premium,
                                 company_data[w].size_premium)

\* C5 (as claimed): on every structurally valid input the call completes
\* without raising and returns an output.
C5_ValidInputNeverRaises ==
    \A w \in Workers :
        (Done(w) /\ StructurallyValid(company_data[w]))
        => (error[w] = NoError /\ Returned(w))

\* C6: a call returns either an output holding every ValuationOutput field,
\* and only once it has run to its end without raising, or no output at all;
\* a call that raised returns None.
C6_NoPartialOutput ==
    \A w \in Workers :
        /\ Returned(w) =>
              /\ Done(w)
              /\ error[w] = NoError
              /\ DOMAIN result[w] = OutputFields
              /\ \A field \in
                     {"dcf_equity_value", "dcf_price_per_share", "comp_ev_value",
                      "comp_pe_value", "final_equity_value",
                      "final_price_per_share", "market_cap", "current_price",
                      "upside_pct", "recommendation", "wacc", "ev_ebitda",
                      "pe_ratio", "fcf_yield", "roe", "roic", "debt_to_equity",
                      "z_score", "mc_p10", "mc_p90"} :
                     field \in DOMAIN result[w]
        /\ (Done(w) /\ error[w] # NoError) => result[w] = None

\* C6 witness: a call that raised after the blended value was computed, and
\* returned nothing.
C6_Witness ==
    \E w \in Workers :
        /\ Done(w)
        /\ error[w] # NoError
        /\ Has(w, "final_equity_value")
        /\ result[w] = None

\* C7 (as claimed): two calls with identical input return identical output.
\* (The engine takes no seed: there is none to differ.)
C7_SameInputSameOutput ==
    \A v \in Workers, w \in Workers :
        (Done(v) /\ Done(w) /\ company_data[v] = company_data[w])
        => result[v] = result[w]

\* C8 (as claimed): whatever calls on other companies run meanwhile, a call
\* returns what it would return had it run alone from the process state it
\* started in.
C8_OutputAsIfAlone ==
    \A w \in Workers :
        ( /\ Done(w)
          /\ \A v \in Workers \ {w} :
                Called(v) => company_data[v] # company_data[w] )
        => result[w] = run_valuation(company_data[w], rng_at_call[w].rng)

\* C9: for every valid input, final_equity_value is
\* 0.50 * dcf_equity_value + 0.25 * comp_ev_value + 0.25 * comp_pe_value of
\* the same output, to within the rounding of the three products (at most 2
\* currency units, never above the exact sum), and final_price_per_share is
\* final_equity_value / shares_outstanding rounded down to 1/RS.
C9_BlendWeights ==
    \A w \in Workers :
        (Returned(w) /\ StructurallyValid(company_data[w])) =>
            LET r == result[w]
                shares == company_data[w].shares_outstanding
                exact == 500 * r.dcf_equity_value + 250 * r.comp_ev_value
                         + 250 * r.comp_pe_value
            IN  /\ exact - RS * r.final_equity_value >= 0
                /\ exact - RS * r.final_equity_value <= 2 * RS
                /\ r.final_price_per_share * shares <= r.final_equity_value * RS
                /\ r.final_equity_value * RS < (r.final_price_per_share + 1) * shares

\* C9 witness: an output for a valid input whose three method values differ.
C9_Witness ==
    \E w \in Workers :
        /\ Returned(w)
        /\ StructurallyValid(company_data[w])
        /\ result[w].dcf_equity_value # result[w].comp_ev_value
        /\ result[w].comp_ev_value # result[w].comp_pe_value
        /\ result[w].dcf_equity_value # result[w].comp_pe_value

\* v is the element at 0-based index k of xs sorted in ascending order.
OrderStatistic(xs, k, v) ==
    /\ \E i \in DOMAIN xs : xs[i] = v
    /\ Cardinality({i \in DOMAIN xs : xs[i] < v}) <= k
    /\ k < Cardinality({i \in DOMAIN xs : xs[i] <= v})

\* C10: in every Monte Carlo summary p10 <= median <= p90, and p10, median
\* and p90 are the elements of the sorted results at indices floor(n * 0.1),
\* n div 2 and floor(n * 0.9).
C10_PercentileOrder ==
    \A w \in Workers :
        Has(w, "mc_results") =>
            LET q == frame[w].mc_results
                xs == mc[w].results
                n == Len(xs)
            IN  /\ q.p10 <= q.median
                /\ q.median <= q.p90
                /\ OrderStatistic(xs, n \div 10, q.p10)
                /\ OrderStatistic(xs, n \div 2, q.median)
                /\ OrderStatistic(xs, (9 * n) \div 10, q.p90)

\* C10 witness: a summary over at least 10 results, drawn in an order that
\* is not ascending, with p10 < median < p90.
C10_Witness ==
    \E w \in Workers :
        /\ Has(w, "mc_results")
        /\ Len(mc[w].results) >= 10
        /\ \E i \in 1..(Len(mc[w].results) - 1) :
              mc[w].results[i] > mc[w].results[i + 1]
        /\ frame[w].mc_results.p10 < frame[w].mc_results.median
        /\ frame[w].mc_results.median < frame[w].mc_results.p90

\* C11 (as claimed): an output whose upside_pct is -10.01 is rated SELL.
C11_JustBelowMinusTenIsSell ==
    \A w \in Workers :
        (Returned(w) /\ result[w].upside_pct = -1001)
        => result[w].recommendation = "SELL"

\* C11 (amended): an output whose upside_pct is -10.01 is rated UNDERWEIGHT,
\* as is every upside in (-20, -10]; SELL is the rating of an upside
\* of -20 or less.
C11_JustBelowMinusTenIsUnderweight ==
    \A w \in Workers :
        Returned(w) =>
            /\ (result[w].upside_pct = -1001
                    => result[w].recommendation = "UNDERWEIGHT")
            /\ ((result[w].upside_pct > -2000 /\ result[w].upside_pct <= -1000)
                    => result[w].recommendation = "UNDERWEIGHT")
            /\ (result[w].recommendation = "SELL"
                    => result[w].upside_pct <= -2000)

\* C11 witness: an output whose upside is -10.01 percent, rated UNDERWEIGHT.
C11_Witness ==
    \E w \in Workers :
        /\ Returned(w)
        /\ result[w].upside_pct = -1001
        /\ result[w].recommendation = "UNDERWEIGHT"

\* Worker w has called fn on its own and the call has returned.
UnitReturned(w, fn) == pc[w] = "returned" /\ frame[w].fn = fn

\* C12: calculate_financial_ratios returns, for every combination of
\* arguments, a dict of all fifteen ratios in which every ratio whose
\* denominator is not positive is exactly 0, and interest_coverage is 999
\* when the interest expense debt * 0.05 is not positive; with ebitda = 0,
\* ev_ebitda is 0.
C12_RatioGuards ==
    \A w \in Workers :
        UnitReturned(w, "calculate_financial_ratios") =>
            LET a == frame[w].args
                r == frame[w].ret
            IN  /\ error[w] = NoError
                /\ DOMAIN r = {"ev", "ev_ebitda", "ev_revenue", "pe",
                               "price_per_share", "fcf_yield", "debt_to_equity",
                               "debt_to_ebitda", "net_debt", "net_debt_to_ebitda",
                               "ebitda_margin", "profit_margin", "roe", "roic",
                               "interest_coverage"}
                /\ (a.ebitda = 0 => r.ev_ebitda = 0)
                /\ (a.ebitda <= 0 =>
                        /\ r.ev_ebitda = 0
                        /\ r.debt_to_ebitda = 0
                        /\ r.net_debt_to_ebitda = 0)
                /\ (a.revenue <= 0 =>
                        /\ r.ev_revenue = 0
                        /\ r.ebitda_margin = 0
                        /\ r.profit_margin = 0)
                /\ (a.profit <= 0 => r.pe = 0)
                /\ (a.shares <= 0 => r.price_per_share = 0)
                /\ (a.equity_value <= 0 =>
                        /\ r.fcf_yield = 0
                        /\ r.debt_to_equity = 0
                        /\ r.roe = 0)
                /\ (a.debt + a.equity_value <= 0 => r.roic = 0)
                /\ (a.debt <= 0 => r.interest_coverage = 999 * RS)

\* C12 witness: a call with ebitda = 0, a negative revenue and no debt has
\* returned 0 for ev_ebitda and 999 for interest_coverage, and a nonzero
\* ratio where the denominator is positive.
C12_Witness ==
    \E w \in Workers :
        /\ UnitReturned(w, "calculate_financial_ratios")
        /\ frame[w].args.ebitda = 0
        /\ frame[w].args.revenue < 0
        /\ frame[w].args.debt = 0
        /\ frame[w].ret.ev_ebitda = 0
        /\ frame[w].ret.interest_coverage = 999 * RS
        /\ frame[w].ret.pe # 0

\* The cost of equity and the WACC a calculate_wacc call returned (the bare
\* float it returns on zero total capital is the cost of equity).
ReturnedCostOfEquity(w) ==
    IF frame[w].ret.kind = "float" THEN frame[w].ret.value
    ELSE frame[w].ret.cost_of_equity

\* Calls v and w differ in beta only, v's being the smaller.
SameButBetaBelow(v, w) ==
    /\ UnitReturned(v, "calculate_wacc")
    /\ UnitReturned(w, "calculate_wacc")
    /\ frame[v].args.beta < frame[w].args.beta
    /\ [frame[v].args EXCEPT !.beta = 0] = [frame[w].args EXCEPT !.beta = 0]

\* C13 (as claimed): of two calculate_wacc calls on the same debt/equity mix
\* (total capital nonzero) and the same other inputs, the one with the
\* larger beta returns the strictly larger cost of equity and the strictly
\* larger WACC.
C13_BetaStrictlyRaisesWacc ==
    \A v \in Workers, w \in Workers :
        (SameButBetaBelow(v, w) /\ frame[w].ret.kind = "tuple") =>
            /\ frame[v].ret.cost_of_equity < frame[w].ret.cost_of_equity
            /\ frame[v].ret.wacc < frame[w].ret.wacc

\* C13 (amended): of two calculate_wacc calls that differ in beta only, the
\* one with the larger beta returns the strictly larger cost of equity when
\* market_risk_premium > 0 and the same cost of equity when it is 0; it
\* returns the strictly larger WACC when moreover equity_value > 0 and
\* debt >= 0 (a positive equity weight), and the same WACC when the equity
\* weight is 0 (equity_value = 0 < debt) or market_risk_premium is 0.
C13_BetaRaisesWaccGivenPremiumAndEquity ==
    \A v \in Workers, w \in Workers :
        SameButBetaBelow(v, w) =>
            LET a == frame[w].args
            IN  /\ (a.mrp > 0 => ReturnedCostOfEquity(v) < ReturnedCostOfEquity(w))
                /\ (a.mrp = 0 => ReturnedCostOfEquity(v) = ReturnedCostOfEquity(w))
                /\ (a.mrp > 0 /\ a.equity_value > 0 /\ a.debt >= 0)
                       => frame[v].ret.wacc < frame[w].ret.wacc
                /\ (a.debt + a.equity_value # 0 /\ (a.mrp = 0 \/ a.equity_value = 0))
                       => frame[v].ret.wacc = frame[w].ret.wacc

\* C13 witness: two calls on a mix with debt and equity and a positive
\* market risk premium, differing in beta only; the larger beta gave the
\* larger WACC.
C13_Witness ==
    \E v \in Workers, w \in Workers :
        /\ SameButBetaBelow(v, w)
        /\ frame[w].args.mrp > 0
        /\ frame[w].args.equity_value > 0
        /\ frame[w].args.debt > 0
        /\ frame[v].ret.cost_of_equity < frame[w].ret.cost_of_equity
        /\ frame[v].ret.wacc < frame[w].ret.wacc

\* C17: for debt + equity_value > 0, calculate_wacc returns the triple
\* (wacc, cost_of_equity, cost_of_debt) with
\* cost_of_equity = risk_free_rate + beta * market_risk_premium
\*                  + country_risk + size_premium,
\* cost_of_debt = risk_free_rate + 0.025 when debt > equity_value and
\* risk_free_rate + 0.015 otherwise (debt = equity_value included), and
\* wacc = (equity_value / total) * cost_of_equity
\*        + (debt / total) * cost_of_debt * (1 - tax_rate),
\* to within the rounding of 1/RS of each product and quotient (4/RS in all).
C17_WaccFormula ==
    \A w \in Workers :
        ( /\ UnitReturned(w, "calculate_wacc")
          /\ frame[w].args.debt + frame[w].args.equity_value > 0 ) =>
            LET a == frame[w].args
                r == frame[w].ret
                total == a.debt + a.equity_value
                coe == a.rf + ((a.beta * a.mrp) \div RS) + a.country_risk
                       + a.size_premium
                cod == a.rf + (IF a.debt > a.equity_value THEN 25 ELSE 15)
                exact == a.equity_value * coe * RS + a.debt * cod * (RS - a.tax_rate)
                got == r.wacc * total * RS
            IN  /\ r.kind = "tuple"
                /\ r.cost_of_equity = coe
                /\ r.cost_of_debt = cod
                /\ exact - got <= 4 * total * RS
                /\ got - exact <= 4 * total * RS

\* C17 witness: a call with debt = equity_value > 0 has returned the cost
\* of debt risk_free_rate + 0.015 and a WACC strictly between the after-tax
\* cost of debt and the cost of equity.
C17_Witness ==
    \E w \in Workers :
        /\ UnitReturned(w, "calculate_wacc")
        /\ frame[w].args.debt = frame[w].args.equity_value
        /\ frame[w].args.debt > 0
        /\ frame[w].args.tax_rate > 0
        /\ frame[w].ret.cost_of_debt = frame[w].args.rf + 15
        /\ frame[w].ret.wacc > frame[w].ret.cost_of_debt
        /\ frame[w].ret.wacc < frame[w].ret.cost_of_equity

\* C14: a valuation run leaves every field of its input record unchanged:
\* from the call on, no step of any worker changes the company_data it was
\* called with, the step that clamps terminal_growth included.
C14_InputNotMutated ==
    [][\A w \in Workers : Called(w) => company_data'[w] = company_data[w]]_vars

\* C14 witness: a run that clamped its terminal growth has returned an
\* output, and the input record's terminal_growth is not the clamped one.
C14_Witness ==
    \E w \in Workers :
        /\ Done(w)
        /\ Returned(w)
        /\ frame[w].clamped
        /\ frame[w].terminal_growth = frame[w].wacc - 10
        /\ company_data[w].terminal_growth >= frame[w].wacc

\* Worker w's valuate_company call returns in this step, reporting success.
ReportsSuccess(w) ==
    /\ outcome'[w] # outcome[w]
    /\ outcome'[w].returned # None
    /\ outcome'[w].returned.success

\* C15: valuation history is append-only.  No step of any valuate_company
\* call removes or changes a row of valuation_results written earlier; a
\* call that reports success has added exactly one row, for its company and
\* holding the results it returns; and no row is added otherwise.
C15_HistoryAppendOnly ==
    [][LET old == db.valuation_results
           new == db'.valuation_results
       IN  /\ Len(new) >= Len(old)
           /\ Len(new) <= Len(old) + 1
           /\ \A i \in DOMAIN old : new[i] = old[i]
           /\ \A w \in Workers :
                 ReportsSuccess(w) =>
                     /\ Len(new) = Len(old) + 1
                     /\ new[Len(new)].company_id = outcome'[w].returned.company_id
                     /\ \A k \in SavedFields :
                           new[Len(new)][k] = outcome'[w].returned.results[k]
           /\ Len(new) = Len(old) + 1 => \E w \in Workers : ReportsSuccess(w)
      ]_vars

\* C15 witness: two successful calls for the same company have left two
\* rows, the earlier one beside the later one and different from it.
C15_Witness ==
    \E w \in Workers :
        /\ pc[w] = "finished"
        /\ outcome[w].calls = 2
        /\ outcome[w].returned # None
        /\ outcome[w].returned.success
        /\ Len(db.valuation_results) = 2
        /\ db.valuation_results[1].company_id = db.valuation_results[2].company_id
        /\ db.valuation_results[1].mc_p10 # db.valuation_results[2].mc_p10

\* Every field of d lies in the domain models.py declares for it.
InDeclaredDomains(d) ==
    /\ d.name # "" /\ d.sector # ""
    /\ d.revenue > 0 /\ d.depreciation >= 0
    /\ d.capex_pct >= 0 /\ d.capex_pct <= 1000
    /\ d.profit_margin >= -1000 /\ d.profit_margin <= 1000
    /\ \A g \in {d.growth_rate_y1, d.growth_rate_y2, d.growth_rate_y3} :
          g >= -500 /\ g <= 2000
    /\ d.terminal_growth >= -100 /\ d.terminal_growth <= 150
    /\ d.tax_rate >= 0 /\ d.tax_rate <= 1000
    /\ d.shares_outstanding > 0 /\ d.debt >= 0 /\ d.cash >= 0
    /\ d.market_cap_estimate > 0
    /\ d.beta >= -3000 /\ d.beta <= 5000
    /\ d.risk_free_rate >= 0 /\ d.risk_free_rate <= 200
    /\ d.market_risk_premium >= 0 /\ d.market_risk_premium <= 300
    /\ d.country_risk_premium >= 0 /\ d.country_risk_premium <= 250
    /\ d.size_premium >= 0 /\ d.size_premium <= 200
    /\ d.comparable_ev_ebitda >= 0 /\ d.comparable_ev_ebitda <= 100000
    /\ d.comparable_pe >= 0 /\ d.comparable_pe <= 200000
    /\ d.comparable_peg >= 0 /\ d.comparable_peg <= 10000

\* d satisfies the cross-field rules: EBITDA margin within [-300%, 200%],
\* depreciation at most 50% of revenue, growth that moderates and stays
\* above terminal growth, a positive enterprise value with debt at most 10x
\* equity, and a cost of equity in (0, 50%] above terminal growth.
CrossFieldRules(d) ==
    LET coe == d.risk_free_rate + ((d.beta * d.market_risk_premium) \div 1000)
               + d.country_risk_premium + d.size_premium
    IN  /\ d.ebitda >= -3 * d.revenue /\ d.ebitda <= 2 * d.revenue
        /\ 2 * d.depreciation <= d.revenue
        /\ ~(d.growth_rate_y1 > 1000 /\ d.growth_rate_y2 > d.growth_rate_y1)
        /\ \A g \in {d.growth_rate_y1, d.growth_rate_y2, d.growth_rate_y3} :
              d.terminal_growth < g
        /\ d.market_cap_estimate + d.debt - d.cash > 0
        /\ d.debt <= 10 * d.market_cap_estimate
        /\ coe > 0 /\ coe <= 500 /\ coe > d.terminal_growth

\* C16: CompanyFinancials rejects every record with revenue <= 0, naming
\* revenue, and every record with tax_rate outside [0, 1], naming tax_rate;
\* it accepts every record all of whose fields lie in their declared
\* domains and which satisfies the cross-field rules.
C16_ValidationRules ==
    \A w \in Workers :
        UnitReturned(w, "CompanyFinancials") =>
            LET d == frame[w].args
                r == frame[w].ret
            IN  /\ d.revenue <= 0 =>
                       (~r.accepted /\ "revenue" \in r.errors)
                /\ (d.tax_rate < 0 \/ d.tax_rate > 1000) =>
                       (~r.accepted /\ "tax_rate" \in r.errors)
                /\ (InDeclaredDomains(d) /\ CrossFieldRules(d)) => r.accepted

\* C16 witness: the record of the test has been accepted.
C16_Witness ==
    \E w \in Workers :
        /\ UnitReturned(w, "CompanyFinancials")
        /\ frame[w].args = ValidRecord
        /\ frame[w].ret.accepted

\* C18: the sensitivity grid of a run has 25 cells, one for each pair of a
\* discount rate among WACC - 2%, - 1%, + 0, + 1%, + 2% and a terminal growth
\* rate among tg - 1%, - 0.5%, + 0, + 0.5%, + 1% (tg being the growth rate
\* the terminal value was computed with); the cell is marked not-applicable
\* exactly when dr <= tg, and otherwise holds
\* total_pv_fcf + (terminal_fcf / (dr - tg)) / (1 + dr)^10 + cash - debt.
C18_SensitivityGrid ==
    \A w \in Workers :
        Has(w, "sensitivity") =>
            LET grid == frame[w].sensitivity
                d == company_data[w]
                f == frame[w]
                dr_offset == << -20, -10, 0, 10, 20 >>
                tg_offset == << -10, -5, 0, 5, 10 >>
            IN  /\ DOMAIN grid = 1..5
                /\ \A r \in 1..5 :
                      /\ DOMAIN grid[r] = 1..5
                      /\ \A c \in 1..5 :
                            LET dr == f.wacc + dr_offset[c]
                                tg == f.terminal_growth + tg_offset[r]
                            IN  /\ grid[r][c].na <=> (dr <= tg)
                                /\ ~grid[r][c].na =>
                                       grid[r][c].eq =
                                           f.total_pv_fcf
                                           + Quot(Quot(f.terminal_fcf, dr - tg),
                                                  Pow(RS + dr, 10))
                                           + d.cash - d.debt

\* C18 witness: a grid built after the clamp (tg = WACC - 1%), in which the
\* cells with dr <= tg are not-applicable and the cell at (WACC, tg) holds
\* the DCF equity value.
C18_Witness ==
    \E w \in Workers :
        /\ Has(w, "sensitivity")
        /\ frame[w].clamped
        /\ frame[w].sensitivity[3][1].na
        /\ frame[w].sensitivity[3][2].na
        /\ ~frame[w].sensitivity[3][3].na
        /\ frame[w].sensitivity[3][3].eq = frame[w].dcf_equity_value
        /\ frame[w].sensitivity[1][5].eq # frame[w].sensitivity[1][4].eq

\* Inputs d and e agree on everything the comparable methods read.
SameComparableInputs(d, e) ==
    /\ d.ebitda = e.ebitda /\ d.revenue = e.revenue
    /\ d.profit_margin = e.profit_margin
    /\ d.debt = e.debt /\ d.cash = e.cash
    /\ d.comparable_ev_ebitda = e.comparable_ev_ebitda
    /\ d.comparable_pe = e.comparable_pe

\* C19: in every output comp_ev_value = ebitda * comparable_ev_ebitda - debt
\* + cash and comp_pe_value = revenue * profit_margin * comparable_pe, and
\* two outputs whose inputs agree on ebitda, revenue, profit_margin, debt,
\* cash and the two multiples have the same comp_ev_value and the same
\* comp_pe_value, whatever else their inputs differ in.
C19_ComparablesIndependent ==
    /\ \A w \in Workers :
          Returned(w) =>
              LET d == company_data[w]
              IN  /\ result[w].comp_ev_value =
                         ((d.ebitda * d.comparable_ev_ebitda) \div 1000)
                         - d.debt + d.cash
                  /\ result[w].comp_pe_value =
                         ((((d.revenue * d.profit_margin) \div 1000)
                           * d.comparable_pe) \div 1000)
    /\ \A v \in Workers, w \in Workers :
          ( /\ Returned(v) /\ Returned(w)
            /\ SameComparableInputs(company_data[v], company_data[w]) )
          => /\ result[v].comp_ev_value = result[w].comp_ev_value
             /\ result[v].comp_pe_value = result[w].comp_pe_value

\* C19 witness: two outputs for inputs that agree on what the comparables
\* read and differ in tax rate, beta and growth; their DCF values differ and
\* their comparable values are the same.
C19_Witness ==
    \E v \in Workers, w \in Workers :
        /\ Returned(v) /\ Returned(w)
        /\ SameComparableInputs(company_data[v], company_data[w])
        /\ company_data[v].tax_rate # company_data[w].tax_rate
        /\ company_data[v].beta # company_data[w].beta
        /\ company_data[v].growth_rate_y1 # company_data[w].growth_rate_y1
        /\ result[v].dcf_equity_value # result[w].dcf_equity_value
        /\ result[v].comp_ev_value = result[w].comp_ev_value
        /\ result[v].comp_pe_value = result[w].comp_pe_value

\* C20: altman_z_score gives every score exactly one zone: Safe when
\* Z > 2.99, Grey when 1.81 < Z <= 2.99, Distress when Z <= 1.81; and, the
\* assets being positive, Z = 1.2 x1 + 1.4 x2 + 3.3 x3 + 0.6 x4 + 1.0 x5 with
\* x4 = equity / debt, or 10 when debt = 0.
C20_AltmanZones ==
    \A w \in Workers :
        UnitReturned(w, "altman_z_score") =>
            LET a == frame[w].args
                z == frame[w].ret.z_score
                zone == frame[w].ret.zone
                assets == a.equity_value + a.debt
                x1 == (a.working_capital * 1000) \div assets
                x2 == (((a.ebitda * 600) \div 1000) * 1000) \div assets
                x3 == (a.ebitda * 1000) \div assets
                x4 == IF a.debt = 0 THEN 10 * 1000
                      ELSE (a.equity_value * 1000) \div a.debt
                x5 == (a.revenue * 1000) \div assets
            IN  /\ zone \in {"Safe Zone", "Grey Zone", "Distress Zone"}
                /\ (zone = "Safe Zone") <=> (z > 2990)
                /\ (zone = "Grey Zone") <=> (1810 < z /\ z <= 2990)
                /\ (zone = "Distress Zone") <=> (z <= 1810)
                /\ (assets > 0 /\ a.debt >= 0) =>
                       z = ((1200 * x1) \div 1000) + ((1400 * x2) \div 1000)
                           + ((3300 * x3) \div 1000) + ((600 * x4) \div 1000)
                           + ((1000 * x5) \div 1000)

\* C20 witness: a call scoring exactly 1.81 has returned Distress (another
\* such call scores exactly 2.99 and is Grey, a debt-free one takes x4 = 10).
C20_Witness ==
    \E w \in Workers :
        /\ UnitReturned(w, "altman_z_score")
        /\ frame[w].args.debt > 0
        /\ frame[w].ret.z_score = 1810
        /\ frame[w].ret.zone = "Distress Zone"

\* A call scoring exactly 2.99 has returned Grey.
C20_GreyAtUpperThreshold ==
    \E w \in Workers :
        /\ UnitReturned(w, "altman_z_score")
        /\ frame[w].ret.z_score = 2990
        /\ frame[w].ret.zone = "Grey Zone"

\* A debt-free call with assets has returned, x4 = 10 putting it at 6 or
\* more plus what x1, x2, x3 and x5 add.
C20_DebtFree ==
    \E w \in Workers :
        /\ UnitReturned(w, "altman_z_score")
        /\ frame[w].args.debt = 0 /\ frame[w].args.equity_value > 0
        /\ frame[w].args.ebitda = 0 /\ frame[w].args.working_capital = 0
        /\ frame[w].ret.z_score = 6000 + (frame[w].args.revenue * 1000) \div 500

\* Worker w's valuate_company call returns in this step.
WorkflowReturns(w) ==
    /\ outcome'[w] # outcome[w]
    /\ outcome'[w].returned # None

\* C21: valuate_company returns (True, results, None) only when the company
\* was fetched, the valuation produced results and their row was committed;
\* (False, None, message) with no row written when the company is not found
\* or the valuation fails; (False, results, message) when only the save
\* fails.  The valuation runs only on a fetched company, and a row is saved
\* only with the results of a valuation that produced some.
C21_WorkflowOutcomes ==
    [][LET old == db.valuation_results
           new == db'.valuation_results
       IN  \A w \in Workers :
             /\ WorkflowReturns(w) =>
                   LET r == outcome'[w].returned
                       fetched == pc[w] = "done"
                       valued == fetched /\ result[w] # None
                       saved == /\ Len(new) = Len(old) + 1
                                /\ new[Len(new)].company_id = r.company_id
                   IN  /\ r.success =>
                             /\ fetched /\ valued /\ saved
                             /\ company_data[w] = db.companies[r.company_id]
                             /\ r.results = result[w]
                             /\ r.error_msg = "None"
                       /\ ~fetched =>
                             /\ ~r.success /\ r.results = None
                             /\ r.error_msg # "None" /\ new = old
                       /\ (fetched /\ ~valued) =>
                             /\ ~r.success /\ r.results = None
                             /\ r.error_msg # "None" /\ new = old
                       /\ (valued /\ ~saved) =>
                             /\ ~r.success /\ r.results = result[w]
                             /\ r.error_msg # "None" /\ new = old
             /\ pc'[w] \notin {"idle", "finished"} =>
                   /\ company_data'[w] # None
                   /\ company_data'[w].id \in DOMAIN db.companies
                   /\ company_data'[w] = db.companies[company_data'[w].id]
             /\ (new # old /\ pc'[w] # pc[w]) =>
                   /\ pc[w] = "done" /\ result[w] # None
      ]_vars

\* C21 witness: a first call has committed its row, and a second call whose
\* valuation produced results has returned them with success False, its save
\* having failed; a single row is stored.
C21_Witness ==
    \E w \in Workers :
        /\ pc[w] = "finished"
        /\ outcome[w].calls = 2
        /\ outcome[w].returned # None
        /\ ~outcome[w].returned.success
        /\ outcome[w].returned.results # None
        /\ outcome[w].returned.results = result[w]
        /\ Len(db.valuation_results) = 1

\* The newest row of valuation_results for company_id in rows, None if it
\* has none.
NewestRow(rows, company_id) ==
    LET mine == {i \in DOMAIN rows : rows[i].company_id = company_id}
    IN  IF mine = {} THEN None
        ELSE rows[CHOOSE i \in mine : \A j \in mine : j <= i]

\* Worker w's update_company request is answered in this step.
UpdateAnswered(w) ==
    /\ app[w].route = "update" /\ app[w].status = 0
    /\ app'[w].status # 0

\* C23 (as claimed): every update that passed validation and was committed
\* is followed by a revaluation of that company; when the update is answered
\* with success, the company's newest valuation_results row was computed
\* from the values that update wrote; when the revaluation failed, the
\* answer is 207 and the failure neither undid the update nor added a row.
C23_UpdateRevalued ==
    [][\A w \in Workers :
          /\ (pc[w] = "updated" /\ pc'[w] # "updated") =>
                outcome'[w].calls = outcome[w].calls + 1
          /\ UpdateAnswered(w) =>
                LET id == app[w].company_id
                    written == app[w].written @@ [id |-> id]
                    newest == NewestRow(db'.valuation_results, id)
                IN  /\ app'[w].status \in {200, 207}
                    /\ app'[w].status = 200 =>
                          /\ outcome'[w].returned.success
                          /\ company_data[w] = written
                          /\ newest # None
                          /\ newest.valuation_date = db.now
                          /\ \A k \in SavedFields :
                                newest[k] = outcome'[w].returned.results[k]
                          /\ newest.market_cap = written.market_cap_estimate
                          /\ newest.comp_ev_value = comp_equity_ev(written)
                          /\ newest.comp_pe_value = comp_pe_method(written)
                    /\ app'[w].status = 207 =>
                          /\ ~outcome'[w].returned.success
                          /\ db'.valuation_results = db.valuation_results
                          /\ db'.companies = db.companies
                          /\ db'.updated_at = db.updated_at
      ]_vars

\* C22 (as claimed): check_valuation_staleness(company_id, updated_at)
\* returns True when the company has no stored valuation or its most recent
\* one is older than updated_at, and False when a valuation was stored for
\* the company at or after updated_at, as right after a successful
\* valuate_company that follows the company's last update.
C22_StaleIffOlderThanUpdate ==
    \A w \in Workers :
        app[w].route = "staleness" =>
            LET seen == SubSeq(db.valuation_results, 1, app[w].body.rows)
                mine == RowsOf(seen, app[w].company_id)
            IN  app[w].body.stale <=>
                    \/ mine = {}
                    \/ \A i \in mine :
                          seen[i].valuation_date < app[w].body.updated_at

\* C30 (as claimed): the list and the detail view report the same latest
\* valuation of a company: read from the same table, the row with the
\* greatest id is the row that comes first by valuation_date descending,
\* also when two valuations of the company share a timestamp.
C30_ListAndDetailAgree ==
    \A v \in Workers, w \in Workers :
        ( /\ app[v].route = "companies"
          /\ app[w].route = "company" /\ app[w].status = 200
          /\ app[v].body.rows = app[w].body.rows )
        => app[v].body.latest[app[w].company_id] = app[w].body.valuation

\* C24 (as claimed): for every record CompanyFinancials accepts, the WACC
\* calculate_wacc derives from the record exceeds the record's
\* terminal_growth.
C24_AcceptedWaccAboveGrowth ==
    \A w \in Workers :
        ( /\ UnitReturned(w, "validate_wacc")
          /\ frame[w].ret.validated.accepted )
        => /\ frame[w].ret.wacc.kind = "tuple"
           /\ frame[w].ret.wacc.wacc > frame[w].args.terminal_growth

\* a / b rounded down, b # 0.
Floor(a, b) == IF b < 0 THEN (-a) \div (-b) ELSE a \div b

\* The schedule as claimed, in thousandths.
ClaimedSchedule(d) ==
    << d.growth_rate_y1, d.growth_rate_y1, d.growth_rate_y2, d.growth_rate_y2,
       d.growth_rate_y3, d.growth_rate_y3,
       Floor(d.growth_rate_y3 + d.terminal_growth, 2),
       d.terminal_growth + 10, d.terminal_growth + 5, d.terminal_growth >>

\* Revenue of year t as claimed: the previous year's times (1 + g_t).
RECURSIVE ClaimedRevenue(_, _)
ClaimedRevenue(d, t) ==
    IF t = 0 THEN d.revenue
    ELSE Floor(ClaimedRevenue(d, t - 1) * (1000 + ClaimedSchedule(d)[t]), 1000)

\* x to the power n, x in thousandths.
RECURSIVE ClaimedPower(_, _)
ClaimedPower(x, n) ==
    IF n = 0 THEN 1000 ELSE Floor(ClaimedPower(x, n - 1) * x, 1000)

\* FCF of year t as claimed.
ClaimedFcf(d, t) ==
    LET g == ClaimedSchedule(d)[t]
        revenue_t == ClaimedRevenue(d, t)
        ebitda_t == Floor(revenue_t * Floor(d.ebitda * 1000, d.revenue), 1000)
        da_t == Floor(revenue_t * Floor(d.depreciation * 1000, d.revenue), 1000)
    IN  Floor((ebitda_t - da_t) * (1000 - d.tax_rate), 1000) + da_t
        - Floor(revenue_t * d.capex_pct, 1000)
        - Floor(d.working_capital_change * ClaimedPower(1000 + g, t), 1000)

\* C25: the projection has ten years, with the growth schedule
\* [g1, g1, g2, g2, g3, g3, (g3+gt)/2, gt+0.01, gt+0.005, gt]; revenue_t is
\* the previous revenue times (1+g_t), EBITDA and D&A keep their base-year
\* ratio to revenue, and FCF_t = (EBITDA_t - D&A_t)(1 - tax_rate) + D&A_t
\* - revenue_t * capex_pct - working_capital_change * (1+g_t)^t.
C25_ProjectionSchedule ==
    \A w \in Workers :
        Has(w, "projected_fcf") =>
            /\ Len(frame[w].projected_fcf) = 10
            /\ \A t \in 1..10 :
                  frame[w].projected_fcf[t] = ClaimedFcf(company_data[w], t)

\* C25 witness: a projection with a working-capital change, growth rates
\* that step down and a terminal rate below them, whose cash flow still
\* changes in each of the last three years.
C25_Witness ==
    \E w \in Workers :
        /\ Has(w, "projected_fcf")
        /\ company_data[w].working_capital_change # 0
        /\ company_data[w].growth_rate_y1 > company_data[w].growth_rate_y2
        /\ company_data[w].growth_rate_y2 > company_data[w].growth_rate_y3
        /\ company_data[w].growth_rate_y3 > company_data[w].terminal_growth + 10
        /\ frame[w].projected_fcf[8] # frame[w].projected_fcf[7]
        /\ frame[w].projected_fcf[9] # frame[w].projected_fcf[8]
        /\ frame[w].projected_fcf[10] # frame[w].projected_fcf[9]

\* The entries of list that are about company_id.
EntriesOf(list, company_id) ==
    {i \in DOMAIN list : list[i].company_id = company_id}

\* Worker w's batch has returned its summary.
BatchReturned(w) == app[w].route = "batch" /\ app[w].status = 200

\* C26: in the summary batch_valuate_all returns, successful + failed =
\* total = the number of companies fetched, and every fetched company is in
\* exactly one of the two lists: in results when its valuate_company
\* succeeded (its row was committed), in errors when it did not.
C26_BatchSummary ==
    \A w \in Workers :
        app[w].route = "batch" =>
            LET body == app[w].body
                summary == body.summary
            IN  /\ summary.total = Len(body.companies)
                /\ summary.successful = Len(summary.results)
                /\ summary.failed = Len(summary.errors)
                /\ summary.successful + summary.failed = body.index - 1
                /\ BatchReturned(w) =>
                      /\ summary.successful + summary.failed = summary.total
                      /\ \A i \in DOMAIN body.companies :
                            LET id == body.companies[i].id
                                in_results == EntriesOf(summary.results, id)
                                in_errors == EntriesOf(summary.errors, id)
                            IN  /\ Cardinality(in_results) + Cardinality(in_errors) = 1
                                /\ (in_results # {}) <=>
                                       (EntriesOf(db.valuation_results, id) # {})

\* C26 witness: a batch over two companies has returned with one success
\* and one failure.
C26_Witness ==
    \E w \in Workers :
        /\ BatchReturned(w)
        /\ app[w].body.summary.total = 2
        /\ app[w].body.summary.successful = 1
        /\ app[w].body.summary.failed = 1
        /\ Len(db.valuation_results) = 1

\* The ids of the first n companies of the fetched list.
FetchedIds(companies, n) == [i \in 1..n |-> companies[i].id]

\* C27: a failure for one company never stops the batch: the companies are
\* attempted one by one in fetch order, each once; a batch that was started
\* returns its summary, and by then every fetched company was attempted.
C27_BatchRunsToEnd ==
    /\ [](\A w \in Workers :
             app[w].route = "batch" =>
                 LET body == app[w].body
                 IN  /\ Len(body.attempts) <= Len(body.companies)
                     /\ body.attempts =
                            FetchedIds(body.companies, Len(body.attempts))
                     /\ BatchReturned(w) =>
                            Len(body.attempts) = Len(body.companies))
    /\ \A w \in Workers :
          (app[w].route = "batch") ~> BatchReturned(w)

\* C27 witness: the first company of a batch failed, the second was
\* attempted after it and succeeded, and the batch has returned.
C27_Witness ==
    \E w \in Workers :
        /\ BatchReturned(w)
        /\ Len(app[w].body.attempts) = 2
        /\ app[w].body.summary.errors # << >>
        /\ app[w].body.summary.errors[1].company_id = app[w].body.attempts[1]
        /\ app[w].body.summary.results # << >>
        /\ app[w].body.summary.results[1].company_id = app[w].body.attempts[2]

\* C28: in every run that builds the sensitivity grid, the centre cell is the
\* one for discount rate = WACC and terminal growth = the growth the terminal
\* value was computed with (the clamped one when the clamp fired); it is
\* never not-applicable and holds the DCF equity value, which is
\* total_pv_fcf + pv_terminal_value + cash - debt and is the
\* dcf_equity_value the run reports.
C28_CentreCellIsDcfEquity ==
    \A w \in Workers :
        /\ Has(w, "sensitivity") =>
              LET f == frame[w]
                  d == company_data[w]
                  centre == f.sensitivity[3][3]
              IN  /\ dr_range(f.wacc)[3] = f.wacc
                  /\ tg_range(f.terminal_growth)[3] = f.terminal_growth
                  /\ f.terminal_growth = clamped_growth(f.wacc, d.terminal_growth)
                  /\ ~centre.na
                  /\ centre.eq = f.dcf_equity_value
                  /\ f.dcf_equity_value =
                         f.total_pv_fcf + f.pv_terminal_value + d.cash - d.debt
        /\ Returned(w) =>
              /\ Has(w, "sensitivity")
              /\ result[w].dcf_equity_value = frame[w].sensitivity[3][3].eq

\* C28 witness: a run whose clamp fired has returned; its terminal value
\* and its net cash both count in the equity value it reports, and the
\* centre cell holds that value.
C28_Witness ==
    \E w \in Workers :
        /\ Returned(w)
        /\ ClampFired(w)
        /\ frame[w].terminal_growth # company_data[w].terminal_growth
        /\ frame[w].pv_terminal_value # 0
        /\ company_data[w].cash # company_data[w].debt
        /\ result[w].dcf_equity_value = frame[w].sensitivity[3][3].eq

====
